---- MODULE Spec2Model ----
(***************************************************************************)
(* A model of the matrix package of RickyKimani/linalg: the factorization  *)
(* engines (LUDecompose, QRDecompose, Inverse), the quantities derived     *)
(* from them (Det, EigenvaluesQR, Pow) and the element-wise helpers.       *)
(*                                                                         *)
(* float64 values are modelled as exact rationals <<num, den>> in lowest   *)
(* terms with den > 0; int inputs are converted by float64(x) = <<x, 1>>.  *)
(* Go's 0-based index i is the 1-based index i + 1 of a TLA+ sequence.     *)
(***************************************************************************)
EXTENDS Integers, Sequences, FiniteSets, TLC

VARIABLES
    m,      \* the caller's matrix: a sequence of rows of ints (Matrix[int])
    m2,     \* the second operand of a call with two matrices
    arg,    \* the scalar arguments of the call
    op,     \* the call that was made on m ("none" before the call)
    ret,    \* what the call returned
    mem     \* the storage of the matrices, where the model follows it

vars == <<m, m2, arg, op, ret, mem>>

(***************************************************************************)
(* Bounds of the model.                                                    *)
(***************************************************************************)
\* Elements of a square input matrix are drawn from 0..MaxEntry, and the
\* matrix is also taken negated.
MaxEntry == 1
\* Largest number of rows, and largest row length, of the inputs that cover
\* the shapes (empty rows, rectangular, ragged).
MaxShape == 3
\* The sizes n of the n x n inputs whose elements are enumerated.
SquareDims == 1..3
\* Largest number of rows and largest row length of a second operand.
MaxShape2 == 2
\* Exponents of Pow are drawn from -MaxPow..MaxPow.
MaxPow == 3
\* maxIter of EigenvaluesQR is drawn from -1..MaxIter.
MaxIter == 2
\* Largest number of rows, and largest row length, of the slices the caller
\* builds where the storage is followed.
MemShape == 2
\* Largest magnitude of an element of the inputs of 2 rows of QRDecompose:
\* 4 brings the columns (3, 4) of norm 5.
QRMaxEntry == 4
\* The number of writes of the caller where the storage is followed.
MaxWrites == 1
\* The magnitude of the elements of the operands of Multiply: ints of
\* -MulEntry..MulEntry, float64s of the halves of these.
MulEntry == 1

\* The largest element of the 3 x 3 matrices on which the multipliers of
\* LUDecompose are followed.
PivotMaxEntry == 2

\* The largest factor between the two columns of the matrices whose QR
\* decomposition is followed in float64 arithmetic.
QRFactorMax == 9

\* The largest element of the symmetric matrices whose eigenvalues are
\* followed in float64 arithmetic.
FloatMaxEntry == 2

\* The largest maxIter of the calls of EigenvaluesQR with a tolerance that
\* is negative, zero or positive.
TolMaxIter == 3

\* The nested calls of Pow that the stack of the goroutine holds.
StackDepth == 3

\* The largest element of the matrices of these calls.
TolMaxEntry == 1
\* The magnitude of the elements of the inputs of EigenvaluesQR.
EigenMaxEntry == 2

(***************************************************************************)
(* float64 arithmetic, exact.                                              *)
(***************************************************************************)
RECURSIVE GCD(_, _)
GCD(a, b) == IF b = 0 THEN a ELSE GCD(b, a % b)

IAbs(x) == IF x < 0 THEN -x ELSE x

\* The rational n/d (d # 0) in lowest terms with a positive denominator.
Rat(n, d) ==
    LET g == GCD(IAbs(n), IAbs(d))
        s == IF d < 0 THEN -1 ELSE 1
    IN  <<(s * n) \div g, (s * d) \div g>>

\* float64(x) for an int x.
F(x) == <<x, 1>>

Zero == F(0)
One == F(1)

RAdd(x, y) == Rat(x[1] * y[2] + y[1] * x[2], x[2] * y[2])
RSub(x, y) == Rat(x[1] * y[2] - y[1] * x[2], x[2] * y[2])
RMul(x, y) == Rat(x[1] * y[1], x[2] * y[2])
RDiv(x, y) == Rat(x[1] * y[2], x[2] * y[1])
RNeg(x) == <<-x[1], x[2]>>
RLess(x, y) == x[1] * y[2] < y[1] * x[2]
\* math.Abs
MathAbs(x) == <<IAbs(x[1]), x[2]>>

\* x < 1e-k for a x >= 0 in lowest terms: num * 10^k < den, computed as
\* num <= (den - 1) div 10^k so that no product leaves the integer range.
RECURSIVE DivPow10(_, _)
DivPow10(d, k) == IF k = 0 THEN d ELSE DivPow10(d \div 10, k - 1)

BelowEps(x, k) == x[1] <= DivPow10(x[2] - 1, k)

\* The singularity threshold of LUDecompose is 1e-12.
LUEpsDigits == 12
\* The singularity threshold of Inverse (epsilon) is 1e-10.
InverseEpsDigits == 10
\* The dependence threshold of QRDecompose is 1e-10.
QREpsDigits == 10

(***************************************************************************)
(* Errors and matrices as values.                                          *)
(***************************************************************************)
\* A nil error.
NilErr == [msg |-> "nil", wrap |-> "", row |-> 0, expected |-> 0, got |-> 0]

\* errors.New(s)
ErrorsNew(s) == [msg |-> s, wrap |-> "", row |-> 0, expected |-> 0, got |-> 0]

\* fmt.Errorf(prefix + ": %w", e)
Wrap(prefix, e) == [e EXCEPT !.wrap = prefix]

\* A nil Matrix, and the Matrix with the given rows.
NilMatrix == [nil |-> TRUE, rows |-> <<>>]
Mat(rows) == [nil |-> FALSE, rows |-> rows]

\* The slice of the elements f[1], ..., f[Len(f)], each evaluated as the
\* slice is made.
Slice(f) == SubSeq(f, 1, Len(f))

\* make(Matrix[float64], r) with every row make([]float64, c).
ZeroRows(r, c) == Slice([i \in 1..r |-> Slice([j \in 1..c |-> Zero])])

\* Validate: nil, or the error naming the first row whose length differs
\* from that of row 0.
Validate(a) ==
    IF Len(a) = 0 THEN NilErr
    ELSE LET bad == {i \in 1..Len(a) : Len(a[i]) # Len(a[1])}
         IN  IF bad = {} THEN NilErr
             ELSE LET i == CHOOSE x \in bad : \A y \in bad : x <= y
                  IN  [msg |-> "inconsistent row length", wrap |-> "",
                       row |-> i - 1, expected |-> Len(a[1]), got |-> Len(a[i])]

isSquare(a) == IF Len(a) = 0 THEN FALSE ELSE Len(a) = Len(a[1])

\* The element-wise conversion to float64 of a matrix of ints.
gtoFloat64Matrix(a) ==
    Slice([i \in 1..Len(a) |-> Slice([j \in 1..Len(a[i]) |-> F(a[i][j])])])

Identity(n) == Slice([i \in 1..n |-> Slice([j \in 1..n |-> IF i = j THEN One ELSE Zero])])

\* Swap of the slice headers a[i] and a[k].
SwapRows(a, i, k) == [a EXCEPT ![i] = a[k], ![k] = a[i]]

(***************************************************************************)
(* LUDecompose.                                                            *)
(***************************************************************************)
\* The pivot search in which a row of equal magnitude replaces the candidate.
RECURSIVE PivotScanLastOnTies(_, _, _, _, _, _)
PivotScanLastOnTies(a, i, k, n, maxRow, maxVal) ==
    IF k > n THEN [maxRow |-> maxRow, maxVal |-> maxVal]
    ELSE IF RLess(MathAbs(a[k][i]), maxVal)
    THEN PivotScanLastOnTies(a, i, k + 1, n, maxRow, maxVal)
    ELSE PivotScanLastOnTies(a, i, k + 1, n, k, MathAbs(a[k][i]))

\* The pivot search: scanning rows k..n of column i, a row replaces the
\* candidate only when its magnitude is strictly greater.
RECURSIVE PivotScan(_, _, _, _, _, _)
PivotScan(a, i, k, n, maxRow, maxVal) ==
    IF k > n THEN [maxRow |-> maxRow, maxVal |-> maxVal]
    ELSE LET absVal == MathAbs(a[k][i])
         IN  IF RLess(maxVal, absVal)
             THEN PivotScan(a, i, k + 1, n, k, absVal)
             ELSE PivotScan(a, i, k + 1, n, maxRow, maxVal)

PivotRow(a, i, n) == PivotScan(a, i, i + 1, n, i, MathAbs(a[i][i]))

\* sum over j < i of x[j] * y(j); y is a function on 1..i-1.
RECURSIVE DotPrefix(_, _, _)
DotPrefix(x, y, i) ==
    IF i = 0 THEN Zero ELSE RAdd(DotPrefix(x, y, i - 1), RMul(x[i], y[i]))

\* LUSwap without the swap of the computed part of L.
LUSwapKeepsL(s, i, maxRow) ==
    IF maxRow # i
    THEN [s EXCEPT !.a = SwapRows(s.a, i, maxRow), !.numSwaps = s.numSwaps + 1]
    ELSE s

\* The row swap of step i: the rows of the working copy, the computed part
\* (columns < i) of L, and the swap counter.
LUSwap(s, i, maxRow) ==
    IF maxRow # i
    THEN [s EXCEPT !.a = SwapRows(s.a, i, maxRow),
                   !.l = [s.l EXCEPT
                            ![i] = Slice([k \in 1..Len(s.l[i]) |->
                                      IF k < i THEN s.l[maxRow][k] ELSE s.l[i][k]]),
                            ![maxRow] = Slice([k \in 1..Len(s.l[i]) |->
                                      IF k < i THEN s.l[i][k] ELSE s.l[maxRow][k]])],
                   !.numSwaps = s.numSwaps + 1]
    ELSE s

\* Row i of U.
LURowU(s, i, n) ==
    [s EXCEPT !.u[i] = Slice([k \in 1..n |->
        IF k < i THEN s.u[i][k]
        ELSE RSub(s.a[i][k],
                  DotPrefix(s.l[i], Slice([j \in 1..n |-> s.u[j][k]]), i - 1))])]

\* Column i of L.
LUColL(s, i, n) ==
    [s EXCEPT !.l = Slice([k \in 1..n |->
        IF k < i THEN s.l[k]
        ELSE IF k = i THEN [s.l[k] EXCEPT ![i] = One]
        ELSE [s.l[k] EXCEPT ![i] =
                RDiv(RSub(s.a[k][i],
                          DotPrefix(s.l[k], Slice([j \in 1..n |-> s.u[j][i]]), i - 1)),
                     s.u[i][i])]])]

\* One iteration of the loop over the pivots.
LUStep(s, i) ==
    LET n  == Len(s.a)
        p  == PivotRow(s.a, i, n)
        s1 == LUSwap(s, i, p.maxRow)
        s2 == LURowU(s1, i, n)
    IN  IF BelowEps(MathAbs(s2.u[i][i]), LUEpsDigits)
        THEN [s2 EXCEPT !.err = ErrorsNew("matrix is singular")]
        ELSE LUColL(s2, i, n)

RECURSIVE LULoop(_, _)
LULoop(s, i) ==
    IF i > Len(s.a) \/ s.err # NilErr THEN s ELSE LULoop(LUStep(s, i), i + 1)

LUFail(e) == [L |-> NilMatrix, U |-> NilMatrix, numSwaps |-> 0, err |-> e]

\* The state before the loop: the working copy a of the input, L and U of
\* zeros, no swap.
LUStart(a) ==
    [a |-> a, l |-> ZeroRows(Len(a), Len(a)), u |-> ZeroRows(Len(a), Len(a)),
     numSwaps |-> 0, err |-> NilErr]

\* LUResult with the swaps counted so far returned on an error.
LUResultKeepsCount(s) ==
    IF s.err # NilErr THEN [LUFail(s.err) EXCEPT !.numSwaps = s.numSwaps]
    ELSE [L |-> Mat(s.l), U |-> Mat(s.u), numSwaps |-> s.numSwaps, err |-> NilErr]

\* What is returned after the loop ended in the state s.
LUResult(s) ==
    IF s.err # NilErr THEN LUFail(s.err)
    ELSE [L |-> Mat(s.l), U |-> Mat(s.u), numSwaps |-> s.numSwaps, err |-> NilErr]

\* LUDecompose[float64]: float64(m[i][j]) is m[i][j].
LUDecomposeFloat64(a) ==
    IF Validate(a) # NilErr THEN LUFail(Validate(a))
    ELSE IF Len(a) = 0 THEN LUFail(ErrorsNew("matrix is empty"))
    ELSE IF ~isSquare(a) THEN LUFail(ErrorsNew("matrix is not square"))
    ELSE LET s == LULoop(LUStart(a), 1)
         IN  LUResult(s)

\* LUDecompose[int]: every element is read through float64(m[i][j]).
LUDecompose(a) == LUDecomposeFloat64(gtoFloat64Matrix(a))

(***************************************************************************)
(* Det.                                                                    *)
(***************************************************************************)
RECURSIVE DiagProduct(_, _)
DiagProduct(u, i) ==
    IF i = 0 THEN One ELSE RMul(DiagProduct(u, i - 1), u[i][i])

DetRet(v, e) == [val |-> v, err |-> e]

\* DetOnLUError returning every error of the LU step.
DetOnLUErrorPropagates(e) == DetRet(Zero, e)

\* What Det returns when the LU step fails with the error e.
DetOnLUError(e) ==
    IF e.msg = "matrix is singular" THEN DetRet(Zero, NilErr) ELSE DetRet(Zero, e)

\* The sign adjustment: det is negated when the number of swaps is odd.
\* DetSign without the change of sign.
DetSignKeepsSign(det, numSwaps) == det

DetSign(det, numSwaps) == IF numSwaps % 2 # 0 THEN RNeg(det) ELSE det

\* Det from the result r of the LU step on a matrix of n rows.
DetOfLU(r, n) ==
    IF r.err # NilErr THEN DetOnLUError(r.err)
    ELSE DetRet(DetSign(DiagProduct(r.U.rows, n), r.numSwaps), NilErr)

\* Det[float64].
DetFloat64(a) ==
    IF Validate(a) # NilErr THEN DetRet(Zero, Wrap("invalid matrix", Validate(a)))
    ELSE IF Len(a) = 0 THEN DetRet(Zero, ErrorsNew("matrix is empty"))
    ELSE IF ~isSquare(a) THEN DetRet(Zero, ErrorsNew("matrix is not square"))
    ELSE DetOfLU(LUDecomposeFloat64(a), Len(a))

\* Det[int]: the elements are read through float64(.) by the LU step.
Det(a) == DetFloat64(gtoFloat64Matrix(a))

(***************************************************************************)
(* Inverse.                                                                *)
(***************************************************************************)
\* The augmented matrix [A | I].
Augmented(a) ==
    LET n == Len(a)
    IN  Slice([i \in 1..n |-> Slice([j \in 1..(2 * n) |->
            IF j <= n THEN a[i][j] ELSE IF j = n + i THEN One ELSE Zero])])

\* The pivot row divided by A[i][i] as read at each column: 1 once column i
\* is divided.
InverseNormalizeLivePivot(A, i) ==
    [A EXCEPT ![i] = Slice([j \in 1..Len(A[i]) |->
                         IF j <= i THEN RDiv(A[i][j], A[i][i]) ELSE A[i][j]])]

\* The pivot row divided by the pivot.
InverseNormalize(A, i) ==
    LET pivot == A[i][i]
    IN  [A EXCEPT ![i] = Slice([j \in 1..Len(A[i]) |-> RDiv(A[i][j], pivot)])]

\* InverseEliminate on the rows below row i only.
InverseEliminateBelow(A, i) ==
    Slice([k \in 1..Len(A) |->
        IF k <= i THEN A[k]
        ELSE LET factor == A[k][i]
             IN  Slice([j \in 1..Len(A[k]) |-> RSub(A[k][j], RMul(factor, A[i][j]))])])

\* Column i eliminated from every row but row i.
InverseEliminate(A, i) ==
    Slice([k \in 1..Len(A) |->
        IF k = i THEN A[k]
        ELSE LET factor == A[k][i]
             IN  Slice([j \in 1..Len(A[k]) |-> RSub(A[k][j], RMul(factor, A[i][j]))])])

\* InverseIsSingular testing the diagonal element instead of the pivot found.
InverseIsSingularDiagonal(A, i, p) == BelowEps(MathAbs(A[i][i]), InverseEpsDigits)

\* The singularity test of step i: the magnitude of the pivot found is
\* below epsilon.
InverseIsSingular(A, i, p) == BelowEps(p.maxVal, InverseEpsDigits)

\* Step i once the pivot p is found.
InversePivot(s, i, p) ==
    IF InverseIsSingular(s.A, i, p)
    THEN [s EXCEPT !.err = ErrorsNew("matrix is singular")]
    ELSE [s EXCEPT !.A = InverseEliminate(
                             InverseNormalize(
                                 IF p.maxRow # i THEN SwapRows(s.A, i, p.maxRow)
                                 ELSE s.A, i), i)]

\* One iteration of the Gauss-Jordan loop on s = [A, err].
InverseStep(s, i) == InversePivot(s, i, PivotRow(s.A, i, Len(s.A)))

RECURSIVE InverseLoop(_, _)
InverseLoop(s, i) ==
    IF i > Len(s.A) \/ s.err # NilErr THEN s
    ELSE InverseLoop(InverseStep(s, i), i + 1)

InverseRet(x, e) == [mat |-> x, err |-> e]

\* What is returned after the loop ended in the state s: on success the
\* right half of the augmented matrix.
InverseResult(s, n) ==
    IF s.err # NilErr THEN InverseRet(NilMatrix, s.err)
    ELSE InverseRet(
             Mat(Slice([i \in 1..n |-> Slice([j \in 1..n |-> s.A[i][n + j]])])),
             NilErr)

\* The state before the loop.
InverseStart(a) == [A |-> Augmented(a), err |-> NilErr]

\* Inverse[float64]: float64(m[i][j]) is m[i][j].
InverseFloat64(a) ==
    IF Validate(a) # NilErr THEN InverseRet(NilMatrix, Validate(a))
    ELSE IF ~isSquare(a)
    THEN InverseRet(NilMatrix, ErrorsNew("cannot invert a non-square matrix"))
    ELSE InverseResult(InverseLoop(InverseStart(a), 1), Len(a))

\* Inverse[int]: every element is read through float64(m[i][j]).
Inverse(a) == InverseFloat64(gtoFloat64Matrix(a))

(***************************************************************************)
(* QRDecompose.                                                            *)
(***************************************************************************)
\* floor(sqrt(x)) of a natural number.
ISqrt(x) == CHOOSE r \in 0..x : r * r <= x /\ x < (r + 1) * (r + 1)

IsSquareNumber(x) == ISqrt(x) * ISqrt(x) = x

\* math.Sqrt has an exact model only where the root is rational.
SqrtIsExact(x) == IsSquareNumber(x[1]) /\ IsSquareNumber(x[2])

\* math.Sqrt of a x >= 0 whose root is rational.
MathSqrt(x) == <<ISqrt(x[1]), ISqrt(x[2])>>

\* sum over i <= t of x[i] * y[i].
RECURSIVE Dot(_, _, _)
Dot(x, y, t) == IF t = 0 THEN Zero ELSE RAdd(Dot(x, y, t - 1), RMul(x[t], y[t]))

Column(a, j) == Slice([i \in 1..Len(a) |-> a[i][j]])

\* QRProject without the subtraction from v.
QRProjectKeepsV(s, qk, j, k, dot) == [s EXCEPT !.r[k][j] = dot]

\* The loop over the columns k < j already made orthonormal: r[k][j] is the
\* dot product of column k of q with column j of the input, and that
\* multiple of column k of q is subtracted from v.
QRProject(s, qk, j, k, dot) ==
    [s EXCEPT !.r[k][j] = dot,
              !.v = Slice([i \in 1..Len(qk) |-> RSub(s.v[i], RMul(dot, qk[i]))])]

RECURSIVE QROrthogonalize(_, _, _, _)
QROrthogonalize(s, mj, j, k) ==
    IF k >= j THEN s
    ELSE QROrthogonalize(
             QRProject(s, Column(s.q, k), j, k, Dot(Column(s.q, k), mj, Len(mj))),
             mj, j, k + 1)

\* The end of an iteration: the dependence test on the norm of v, then
\* r[j][j] and column j of q.
QRSetColumn(s, j, norm) ==
    IF BelowEps(norm, QREpsDigits)
    THEN [s EXCEPT !.err = ErrorsNew("linearly dependent columns (zero norm)")]
    ELSE [s EXCEPT !.r[j][j] = norm,
                   !.q = Slice([i \in 1..Len(s.q) |->
                            [s.q[i] EXCEPT ![j] = RDiv(s.v[i], norm)]])]

\* The norm of v, where sq is the sum of the squares of its elements.
QRNorm(s, j, sq) ==
    IF ~SqrtIsExact(sq) THEN [s EXCEPT !.exact = FALSE]
    ELSE QRSetColumn(s, j, MathSqrt(sq))

QRNormalize(s, j) == QRNorm(s, j, Dot(s.v, s.v, Len(s.v)))

\* One iteration of the Gram-Schmidt loop, for column j of the input a.
QRStep(s, a, j) ==
    QRNormalize(QROrthogonalize([s EXCEPT !.v = Column(a, j)], Column(a, j), j, 1), j)

RECURSIVE QRLoop(_, _, _)
QRLoop(s, a, j) ==
    IF j > Len(a[1]) \/ s.err # NilErr \/ ~s.exact THEN s
    ELSE QRLoop(QRStep(s, a, j), a, j + 1)

QRRet(q, r, e, x) == [Q |-> q, R |-> r, err |-> e, exact |-> x]

\* What is returned after the loop ended in the state s.
QRResult(s) ==
    IF ~s.exact THEN QRRet(NilMatrix, NilMatrix, NilErr, FALSE)
    ELSE IF s.err # NilErr THEN QRRet(NilMatrix, NilMatrix, s.err, TRUE)
    ELSE QRRet(Mat(s.q), Mat(s.r), NilErr, TRUE)

\* QRDecompose[float64]: float64(m[i][j]) is m[i][j].
\* exact is FALSE when a norm met on the way is irrational: the call is then
\* outside what exact arithmetic can follow.
QRDecomposeFloat64(a) ==
    IF Validate(a) # NilErr THEN QRRet(NilMatrix, NilMatrix, Validate(a), TRUE)
    ELSE IF Len(a) = 0
    THEN QRRet(NilMatrix, NilMatrix, ErrorsNew("empty matrix"), TRUE)
    ELSE IF ~isSquare(a)
    THEN QRRet(NilMatrix, NilMatrix, ErrorsNew("matrix must be square"), TRUE)
    ELSE QRResult(QRLoop([q |-> ZeroRows(Len(a), Len(a[1])),
                          r |-> ZeroRows(Len(a[1]), Len(a[1])),
                          v |-> <<>>, err |-> NilErr, exact |-> TRUE], a, 1))

\* QRDecompose[int]: every element is read through float64(m[i][j]).
QRDecompose(a) == QRDecomposeFloat64(gtoFloat64Matrix(a))

(***************************************************************************)
(* Multiply, Add, Subtract, Transpose, Scale, Trace.                       *)
(***************************************************************************)
MatRet(x, e) == [mat |-> x, err |-> e]

\* The product loop with = in the place of +=: result[i][j] is the last
\* product a[i][k] * b[k][j].
MultiplyRowsOverwrites(a, b) ==
    Slice([i \in 1..Len(a) |-> Slice([j \in 1..Len(b[1]) |->
        RMul(a[i][Len(b)], b[Len(b)][j])])])

\* The product loop: result[i][j] sums a[i][k] * b[k][j] over k < inner.
MultiplyRows(a, b) ==
    Slice([i \in 1..Len(a) |-> Slice([j \in 1..Len(b[1]) |->
        Dot(a[i], Column(b, j), Len(b))])])

\* Multiply[float64, float64] with the test of the dimensions before the
\* test for an empty operand.
MultiplyFloat64DimensionsFirst(a, b) ==
    IF Validate(a) # NilErr THEN MatRet(NilMatrix, Wrap("first matrix", Validate(a)))
    ELSE IF Validate(b) # NilErr
    THEN MatRet(NilMatrix, Wrap("second matrix", Validate(b)))
    ELSE IF Len(a) > 0 /\ Len(a[1]) # Len(b)
    THEN MatRet(NilMatrix, ErrorsNew("incompatible dimensions"))
    ELSE IF Len(a) = 0 \/ Len(b) = 0 THEN MatRet(NilMatrix, ErrorsNew("empty matrix"))
    ELSE MatRet(Mat(MultiplyRows(a, b)), NilErr)

\* Multiply[float64, float64].
MultiplyFloat64(a, b) ==
    IF Validate(a) # NilErr THEN MatRet(NilMatrix, Wrap("first matrix", Validate(a)))
    ELSE IF Validate(b) # NilErr
    THEN MatRet(NilMatrix, Wrap("second matrix", Validate(b)))
    ELSE IF Len(a) = 0 \/ Len(b) = 0 THEN MatRet(NilMatrix, ErrorsNew("empty matrix"))
    ELSE IF Len(a[1]) # Len(b)
    THEN MatRet(NilMatrix, ErrorsNew("incompatible dimensions"))
    ELSE MatRet(Mat(MultiplyRows(a, b)), NilErr)

\* Multiply[int, int]: the elements are read through float64(.).
Multiply(a, b) == MultiplyFloat64(gtoFloat64Matrix(a), gtoFloat64Matrix(b))

\* The elements of a matrix of the element type T read through float64(.).
ToFloat64(T, a) == IF T = "int" THEN gtoFloat64Matrix(a) ELSE a

\* Multiply[T, E].
MultiplyTE(T, E, a, b) == MultiplyFloat64(ToFloat64(T, a), ToFloat64(E, b))

\* The row loop of Add and Subtract from row i on: a row of b whose length
\* differs from that of the row of a ends the call with an error.
RECURSIVE ElementwiseRows(_, _, _, _, _)
ElementwiseRows(a, b, sign, i, acc) ==
    IF i > Len(a) THEN MatRet(Mat(acc), NilErr)
    ELSE IF Len(b[i]) # Len(a[i])
    THEN MatRet(NilMatrix, ErrorsNew("incompatible row lengths"))
    ELSE ElementwiseRows(a, b, sign, i + 1,
             Append(acc, Slice([j \in 1..Len(a[i]) |->
                 IF sign = 1 THEN RAdd(F(a[i][j]), F(b[i][j]))
                 ELSE RSub(F(a[i][j]), F(b[i][j]))])))

Elementwise(a, b, sign) ==
    IF Validate(a) # NilErr THEN MatRet(NilMatrix, Wrap("first matrix", Validate(a)))
    ELSE IF Validate(b) # NilErr
    THEN MatRet(NilMatrix, Wrap("second matrix", Validate(b)))
    ELSE IF Len(a) = 0 \/ Len(b) = 0 THEN MatRet(NilMatrix, ErrorsNew("empty matrix"))
    ELSE IF Len(a) # Len(b) THEN MatRet(NilMatrix, ErrorsNew("incompatible dimensions"))
    ELSE ElementwiseRows(a, b, sign, 1, <<>>)

Add(a, b) == Elementwise(a, b, 1)

Subtract(a, b) == Elementwise(a, b, -1)

\* Transpose[int]: no error is returned; an invalid or empty input gives the
\* empty (non-nil) matrix.
Transpose(a) ==
    IF Validate(a) # NilErr THEN Mat(<<>>)
    ELSE IF Len(a) = 0 THEN Mat(<<>>)
    ELSE Mat(Slice([i \in 1..Len(a[1]) |-> Slice([j \in 1..Len(a) |-> a[j][i]])]))

\* Scale[int, int]: no error is returned; an invalid or empty input gives the
\* empty (non-nil) matrix.
Scale(sc, a) ==
    IF Validate(a) # NilErr THEN Mat(<<>>)
    ELSE IF Len(a) = 0 THEN Mat(<<>>)
    ELSE Mat(Slice([i \in 1..Len(a) |->
                 Slice([j \in 1..Len(a[1]) |-> RMul(F(sc), F(a[i][j]))])]))

RECURSIVE DiagSum(_, _)
DiagSum(a, i) == IF i = 0 THEN 0 ELSE DiagSum(a, i - 1) + a[i][i]

TraceRet(t, e) == [trace |-> t, err |-> e]

\* Trace[int].
Trace(a) ==
    IF Validate(a) # NilErr THEN TraceRet(0, Wrap("invalid matrix", Validate(a)))
    ELSE IF Len(a) = 0
    THEN TraceRet(0, ErrorsNew("cannot find trace of an empty matrix"))
    ELSE IF ~isSquare(a)
    THEN TraceRet(0, ErrorsNew("cannot find trace of a non-square matrix"))
    ELSE TraceRet(DiagSum(a, Len(a)), NilErr)

(***************************************************************************)
(* Pow.                                                                    *)
(***************************************************************************)
\* The binary exponentiation loop; Multiply cannot fail on square matrices
\* of one size.
RECURSIVE PowLoop(_, _, _)

\* The rest of an iteration without the squaring of base.
PowSquareKeepsBase(result, base, n) == PowLoop(result, base, n)

\* The rest of an iteration, after result was multiplied by base when the
\* low bit of n was set: n is halved and, unless it is 0, base is squared.
PowSquare(result, base, n) ==
    IF n > 0 THEN PowLoop(result, MultiplyFloat64(base, base).mat.rows, n)
    ELSE PowLoop(result, base, n)

PowLoop(result, base, n) ==
    IF n <= 0 THEN result
    ELSE PowSquare(IF n % 2 = 1 THEN MultiplyFloat64(result, base).mat.rows
                   ELSE result, base, n \div 2)

RECURSIVE PowFloat64(_, _)

\* The negative exponent n: the power -n of the inverse inv, if there is one.
PowOfInverse(inv, n) ==
    IF inv.err # NilErr
    THEN MatRet(NilMatrix, Wrap("cannot compute negative power", inv.err))
    ELSE PowFloat64(inv.mat.rows, -n)

\* Pow[float64].
PowFloat64(a, n) ==
    IF Validate(a) # NilErr THEN MatRet(NilMatrix, Wrap("invalid matrix", Validate(a)))
    ELSE IF Len(a) = 0 THEN MatRet(NilMatrix, ErrorsNew("empty matrix"))
    ELSE IF ~isSquare(a) THEN MatRet(NilMatrix, ErrorsNew("matrix must be square"))
    ELSE IF n = 0 THEN MatRet(Mat(Identity(Len(a))), NilErr)
    ELSE IF n < 0 THEN PowOfInverse(InverseFloat64(a), n)
    ELSE IF n = 1 THEN MatRet(Mat(a), NilErr)
    ELSE MatRet(Mat(PowLoop(Identity(Len(a)), a, n)), NilErr)

\* Pow[int]: the elements are read through float64(.).
Pow(a, n) == PowFloat64(gtoFloat64Matrix(a), n)

(***************************************************************************)
(* EigenvaluesQR.                                                          *)
(***************************************************************************)
Diagonal(a) == Slice([i \in 1..Len(a) |-> a[i][i]])

\* The convergence test: no diagonal element moved by more than tol.
Converged(current, prevDiag, tol) ==
    \A i \in 1..Len(current) :
        ~RLess(tol, MathAbs(RSub(current[i][i], prevDiag[i])))

\* The calls made so far: qr counts the calls of QRDecompose, mul those of
\* Multiply.
NoCalls == [qr |-> 0, mul |-> 0]

EigenRet(v, e, x, c) == [vals |-> v, err |-> e, exact |-> x, calls |-> c]

RECURSIVE EigenLoop(_, _, _, _, _)

\* The end of an iteration: the convergence test, from the second iteration
\* on, on the product R * Q.
EigenNext(prod, prevDiag, iter, maxIter, tol, c) ==
    IF prod.err # NilErr THEN EigenRet(<<>>, prod.err, TRUE, c)
    ELSE IF iter > 0 /\ Converged(prod.mat.rows, prevDiag, tol)
    THEN EigenRet(Diagonal(prod.mat.rows), NilErr, TRUE, c)
    ELSE EigenLoop(prod.mat.rows, iter + 1, maxIter, tol, c)

\* An iteration after its QR decomposition qr, which keeps the diagonal of
\* the earlier iterate.
EigenAfterQRKeepsDiagonal(qr, prevDiag, iter, maxIter, tol, c) ==
    IF ~qr.exact THEN EigenRet(<<>>, NilErr, FALSE, c)
    ELSE IF qr.err # NilErr THEN EigenRet(prevDiag, qr.err, TRUE, c)
    ELSE EigenNext(MultiplyFloat64(qr.R.rows, qr.Q.rows), prevDiag, iter, maxIter,
                   tol, [c EXCEPT !.mul = c.mul + 1])

\* An iteration after its QR decomposition qr.
EigenAfterQR(qr, prevDiag, iter, maxIter, tol, c) ==
    IF ~qr.exact THEN EigenRet(<<>>, NilErr, FALSE, c)
    ELSE IF qr.err # NilErr THEN EigenRet(<<>>, qr.err, TRUE, c)
    ELSE EigenNext(MultiplyFloat64(qr.R.rows, qr.Q.rows), prevDiag, iter, maxIter,
                   tol, [c EXCEPT !.mul = c.mul + 1])

\* The iteration from iteration iter (0-based) on.
EigenLoop(current, iter, maxIter, tol, c) ==
    IF iter >= maxIter THEN EigenRet(Diagonal(current), NilErr, TRUE, c)
    ELSE EigenAfterQR(QRDecomposeFloat64(current), Diagonal(current),
                      iter, maxIter, tol, [c EXCEPT !.qr = c.qr + 1])

\* The return for maxIter <= 0, after one iteration.
EigenNoIterationIterates(current) == EigenLoop(current, 0, 1, Zero, NoCalls)

\* The return for maxIter <= 0: the diagonal of current.
EigenNoIteration(current) == EigenRet(Diagonal(current), NilErr, TRUE, NoCalls)

\* EigenvaluesQR[float64], where gtoFloat64Matrix(m) has the elements of m.
\* A nil slice of eigenvalues is the empty sequence.
EigenvaluesQRFloat64(a, maxIter, tol) ==
    IF Validate(a) # NilErr THEN EigenRet(<<>>, Validate(a), TRUE, NoCalls)
    ELSE IF Len(a) = 0
    THEN EigenRet(<<>>, ErrorsNew("matrix cannot be empty"), TRUE, NoCalls)
    ELSE IF ~isSquare(a)
    THEN EigenRet(<<>>, ErrorsNew("matrix must be square"), TRUE, NoCalls)
    ELSE IF maxIter <= 0 THEN EigenNoIteration(a)
    ELSE EigenLoop(a, 0, maxIter, tol, NoCalls)

\* EigenvaluesQR[int].
EigenvaluesQR(a, maxIter, tol) ==
    EigenvaluesQRFloat64(gtoFloat64Matrix(a), maxIter, tol)

(***************************************************************************)
(* float64 as IEEE 754 binary64.  The significand of a float64 has 53      *)
(* bits, more than an integer of the model checker holds: naturals are     *)
(* sequences of limbs of LimbBits bits, the least significant limb first,  *)
(* with no zero limb at the end (the number 0 is the empty sequence).      *)
(***************************************************************************)
LimbBits == 15

Base == 2^LimbBits

\* The bits of the significand of a float64, the hidden bit included.
SignificandBits == 53

Limb(a, i) == IF i <= Len(a) THEN a[i] ELSE 0

RECURSIVE BNorm(_)
BNorm(a) ==
    IF Len(a) = 0 THEN a
    ELSE IF a[Len(a)] = 0 THEN BNorm(SubSeq(a, 1, Len(a) - 1))
    ELSE a

\* The natural x of the model checker as limbs.
RECURSIVE BFromInt(_)
BFromInt(x) == IF x = 0 THEN <<>> ELSE <<x % Base>> \o BFromInt(x \div Base)

LongerLen(a, b) == IF Len(a) >= Len(b) THEN Len(a) ELSE Len(b)

\* a + b + c from limb i on, where c is the carry.
RECURSIVE BAddC(_, _, _, _)
BAddC(a, b, i, c) ==
    IF i > LongerLen(a, b) THEN (IF c = 0 THEN <<>> ELSE <<c>>)
    ELSE <<(Limb(a, i) + Limb(b, i) + c) % Base>>
             \o BAddC(a, b, i + 1, (Limb(a, i) + Limb(b, i) + c) \div Base)

BAdd(a, b) == BAddC(a, b, 1, 0)

\* a - b - c from limb i on, for a >= b, where c is the borrow.
RECURSIVE BSubC(_, _, _, _)
BSubC(a, b, i, c) ==
    IF i > Len(a) THEN <<>>
    ELSE <<(a[i] - Limb(b, i) - c + Base) % Base>>
             \o BSubC(a, b, i + 1, IF a[i] - Limb(b, i) - c < 0 THEN 1 ELSE 0)

BSub(a, b) == BNorm(BSubC(a, b, 1, 0))

\* -1, 0 or 1 as a is below, equal to or above b, from limb i down, where
\* the limbs above i are equal.
RECURSIVE BCmpAt(_, _, _)
BCmpAt(a, b, i) ==
    IF i = 0 THEN 0
    ELSE IF a[i] < b[i] THEN -1
    ELSE IF a[i] > b[i] THEN 1
    ELSE BCmpAt(a, b, i - 1)

BCmp(a, b) ==
    IF Len(a) < Len(b) THEN -1
    ELSE IF Len(a) > Len(b) THEN 1
    ELSE BCmpAt(a, b, Len(a))

\* a * d + c from limb i on, for a limb d.
RECURSIVE BMulSmallC(_, _, _, _)
BMulSmallC(a, d, i, c) ==
    IF i > Len(a) THEN (IF c = 0 THEN <<>> ELSE <<c>>)
    ELSE <<(a[i] * d + c) % Base>> \o BMulSmallC(a, d, i + 1, (a[i] * d + c) \div Base)

BMulSmall(a, d) == IF d = 0 THEN <<>> ELSE BMulSmallC(a, d, 1, 0)

\* a * (the limbs of b from limb i on).
RECURSIVE BMulAt(_, _, _)
BMulAt(a, b, i) ==
    IF i > Len(b) THEN <<>>
    ELSE BAdd(BMulSmall(a, b[i]), <<0>> \o BMulAt(a, b, i + 1))

BMul(a, b) == BNorm(BMulAt(a, b, 1))

Zeros(k) == SubSeq([i \in 1..k |-> 0], 1, k)

\* a * 2^s.
BShl(a, s) ==
    IF Len(a) = 0 THEN a
    ELSE Zeros(s \div LimbBits) \o BMulSmall(a, 2^(s % LimbBits))

\* floor(a / 2^r) for r < LimbBits.
BShrBits(a, r) ==
    BNorm(SubSeq([i \in 1..Len(a) |->
              (a[i] \div 2^r) + (Limb(a, i + 1) % 2^r) * 2^(LimbBits - r)], 1, Len(a)))

\* floor(a / 2^s).
BShr(a, s) ==
    IF s \div LimbBits >= Len(a) THEN <<>>
    ELSE BShrBits(SubSeq(a, s \div LimbBits + 1, Len(a)), s % LimbBits)

RECURSIVE BitLenSmall(_)
BitLenSmall(x) == IF x = 0 THEN 0 ELSE 1 + BitLenSmall(x \div 2)

\* The number of bits of a.
BBitLen(a) ==
    IF Len(a) = 0 THEN 0 ELSE LimbBits * (Len(a) - 1) + BitLenSmall(a[Len(a)])

BIsOdd(a) == Len(a) > 0 /\ a[1] % 2 = 1

BOne == <<1>>

\* a + 1 for an even a.
BSetLowBit(a) == IF Len(a) = 0 THEN BOne ELSE [a EXCEPT ![1] = @ + 1]

(***************************************************************************)
(* A dyadic number (-1)^s * n * 2^e is [s, n, e, out]; a float64 is one    *)
(* whose n is 0 or has SignificandBits bits.  out marks a value outside    *)
(* the normal float64s (an infinity, a NaN, a subnormal), which the model  *)
(* does not follow.                                                        *)
(***************************************************************************)
Dyadic(s, n, e) == [s |-> s, n |-> n, e |-> e, out |-> FALSE]

Outside == [s |-> 0, n |-> <<>>, e |-> 0, out |-> TRUE]

\* The bits of the exponent of a float64.
ExponentBits == 11

\* The largest exponent of the first bit of a float64; the least one of a
\* normal float64 is 1 - MaxExponent.
MaxExponent == 2^(ExponentBits - 1) - 1

\* The least and the largest exponent of the last bit of a normal float64.
MinExp == 1 - MaxExponent - (SignificandBits - 1)

MaxExp == MaxExponent - (SignificandBits - 1)

IsZero(x) == Len(x.n) = 0

\* The float64 of s, the significand q of SignificandBits bits or one more
\* (after a carry out of the rounding), and the exponent e.
F64Carry(s, q, e) ==
    IF BBitLen(q) > SignificandBits
    THEN (IF e + 1 > MaxExp THEN Outside ELSE Dyadic(s, BShr(q, 1), e + 1))
    ELSE (IF e > MaxExp \/ e < MinExp THEN Outside ELSE Dyadic(s, q, e))

\* Rounding to nearest, ties to even: q is the kept bits, c compares the
\* dropped bits with one half of the last kept bit.
F64RoundUp(s, q, e, c) ==
    IF c > 0 \/ (c = 0 /\ BIsOdd(q)) THEN F64Carry(s, BAdd(q, BOne), e)
    ELSE F64Carry(s, q, e)

\* n has sh bits more than a significand: q is n without its sh last bits.
F64Drop(s, n, e, sh, q) ==
    F64RoundUp(s, q, e + sh, BCmp(BSub(n, BShl(q, sh)), BShl(BOne, sh - 1)))

\* The float64 nearest to the dyadic number of s, n (of len bits) and e.
F64OfBits(s, n, e, len) ==
    IF len = 0 THEN Dyadic(s, n, 0)
    ELSE IF len <= SignificandBits
    THEN F64Carry(s, BShl(n, SignificandBits - len), e - (SignificandBits - len))
    ELSE F64Drop(s, n, e, len - SignificandBits, BShr(n, len - SignificandBits))

\* The float64 nearest to the dyadic number d.
F64Round(d) == IF d.out THEN Outside ELSE F64OfBits(d.s, d.n, d.e, BBitLen(d.n))

\* The product of two dyadic numbers.
ExactMul(x, y) ==
    IF x.out \/ y.out THEN Outside
    ELSE IF IsZero(x) \/ IsZero(y) THEN Dyadic((x.s + y.s) % 2, <<>>, 0)
    ELSE Dyadic((x.s + y.s) % 2, BMul(x.n, y.n), x.e + y.e)

\* The sum of the numbers of the signs sx and sy and the magnitudes nx and
\* ny, which are multiples of 2^e: a sum of 0 is +0.
ExactAddAligned(sx, nx, sy, ny, e, c) ==
    IF sx = sy THEN Dyadic(sx, BAdd(nx, ny), e)
    ELSE IF c = 0 THEN Dyadic(0, <<>>, 0)
    ELSE IF c > 0 THEN Dyadic(sx, BSub(nx, ny), e)
    ELSE Dyadic(sy, BSub(ny, nx), e)

ExactAddShifted(sx, nx, sy, ny, e) ==
    ExactAddAligned(sx, nx, sy, ny, e, BCmp(nx, ny))

\* The sum of two dyadic numbers; 0 + 0 is -0 only for -0 + -0.
ExactAdd(x, y) ==
    IF x.out \/ y.out THEN Outside
    ELSE IF IsZero(x) /\ IsZero(y) THEN Dyadic(IF x.s = 1 /\ y.s = 1 THEN 1 ELSE 0, <<>>, 0)
    ELSE IF IsZero(x) THEN y
    ELSE IF IsZero(y) THEN x
    ELSE IF x.e >= y.e
    THEN ExactAddShifted(x.s, BShl(x.n, x.e - y.e), y.s, y.n, y.e)
    ELSE ExactAddShifted(x.s, x.n, y.s, BShl(y.n, y.e - x.e), x.e)

F64Neg(x) == IF x.out THEN Outside ELSE [x EXCEPT !.s = 1 - x.s]

\* math.Abs
F64Abs(x) == IF x.out THEN Outside ELSE [x EXCEPT !.s = 0]

\* x * y, x + y, x - y of float64s.
F64Mul(x, y) == F64Round(ExactMul(x, y))

F64Add(x, y) == F64Round(ExactAdd(x, y))

F64Sub(x, y) == F64Round(ExactAdd(x, F64Neg(y)))

\* z + x * y and z - x * y: with fused the product is not rounded (a fused
\* multiply-add instruction), else it is rounded before the sum.
F64AddMul(fused, z, x, y) ==
    IF fused THEN F64Round(ExactAdd(z, ExactMul(x, y)))
    ELSE F64Add(z, F64Mul(x, y))

F64SubMul(fused, z, x, y) ==
    IF fused THEN F64Round(ExactAdd(z, F64Neg(ExactMul(x, y))))
    ELSE F64Sub(z, F64Mul(x, y))

\* The bits computed of a quotient or a root before the rounding: more
\* than a significand, so that the rounding sees what is dropped.
QuotientBits == SignificandBits + 3

\* One bit of the quotient of r by d, for r < 2 * d: q is the bits so far.
DivStep(s, d) ==
    IF BCmp(s.r, d) >= 0
    THEN [r |-> BShl(BSub(s.r, d), 1), q |-> BSetLowBit(BShl(s.q, 1))]
    ELSE [r |-> BShl(s.r, 1), q |-> BShl(s.q, 1)]

\* k bits of the quotient, which are 0 once nothing is left of r.
RECURSIVE DivSteps(_, _, _)
DivSteps(s, d, k) ==
    IF Len(s.r) = 0 THEN [r |-> s.r, q |-> BShl(s.q, k)]
    ELSE IF k = 1 THEN DivStep(s, d)
    ELSE DivSteps(DivSteps(s, d, k \div 2), d, k - k \div 2)

\* The bits of a quotient or a root and one more bit, set when something is
\* left over.
WithSticky(q, left) == IF Len(left) = 0 THEN BShl(q, 1) ELSE BSetLowBit(BShl(q, 1))

DivBits(s) == WithSticky(s.q, s.r)

\* x / y of float64s.
F64Div(x, y) ==
    IF x.out \/ y.out \/ IsZero(y) THEN Outside
    ELSE IF IsZero(x) THEN Dyadic((x.s + y.s) % 2, <<>>, 0)
    ELSE F64Round(Dyadic((x.s + y.s) % 2,
                         DivBits(DivSteps([r |-> x.n, q |-> <<>>], y.n, QuotientBits)),
                         x.e - y.e - QuotientBits))

\* The bits 2i and 2i+1 of n.
BitPair(n, i) == Limb(BShr(n, 2 * i), 1) % 4

\* Whether n has no bit set below bit 2i.
NoBitsBelow(n, i) == BCmp(BShl(BShr(n, 2 * i), 2 * i), n) = 0

\* Bit i of the root of n: rem is what is left of the bits of n above bit
\* 2i after the square of root, the bits of the root above bit i.
SqrtTry(root, rem, t) ==
    IF BCmp(rem, t) >= 0
    THEN [rem |-> BSub(rem, t), root |-> BSetLowBit(BShl(root, 1))]
    ELSE [rem |-> rem, root |-> BShl(root, 1)]

SqrtStep(n, s, i) ==
    SqrtTry(s.root, BAdd(BShl(s.rem, 2), BFromInt(BitPair(n, i))),
            BSetLowBit(BShl(s.root, 2)))

\* The bits hi down to lo of the root of n, which are 0 once nothing is
\* left of n.
RECURSIVE SqrtSteps(_, _, _, _)
SqrtSteps(n, s, hi, lo) ==
    IF Len(s.rem) = 0 /\ NoBitsBelow(n, hi + 1)
    THEN [rem |-> s.rem, root |-> BShl(s.root, hi - lo + 1)]
    ELSE IF hi = lo THEN SqrtStep(n, s, hi)
    ELSE SqrtSteps(n, SqrtSteps(n, s, hi, (hi + lo) \div 2 + 1), (hi + lo) \div 2, lo)

\* The largest r with r * r <= n, and one more bit, set when r * r # n.
SqrtBits(s) == WithSticky(s.root, s.rem)

SqrtOfShifted(n, e) ==
    F64Round(Dyadic(0, SqrtBits(SqrtSteps(n, [rem |-> <<>>, root |-> <<>>],
                                          QuotientBits, 0)),
                    (e \div 2) - 1))

\* An even number of bits by which a significand is shifted to have a root
\* of QuotientBits bits or one more.
SqrtShift == 2 * (QuotientBits - SignificandBits \div 2)

\* math.Sqrt of a float64 x >= 0: the significand is shifted by an amount
\* that leaves an even exponent.
MathSqrt64(x) ==
    IF x.out \/ (x.s = 1 /\ ~IsZero(x)) THEN Outside
    ELSE IF IsZero(x) THEN x
    ELSE IF x.e % 2 = 0
    THEN SqrtOfShifted(BShl(x.n, SqrtShift), x.e - SqrtShift)
    ELSE SqrtOfShifted(BShl(x.n, SqrtShift + 1), x.e - SqrtShift - 1)

\* x < y of float64s.
F64Less(x, y) ==
    LET d == ExactAdd(y, F64Neg(x)) IN ~d.out /\ ~IsZero(d) /\ d.s = 0

\* float64(k) of an int k of small magnitude.
F64OfInt(k) == F64Round(Dyadic(IF k < 0 THEN 1 ELSE 0, BFromInt(IAbs(k)), 0))

F64Zero == Dyadic(0, <<>>, 0)

\* The float64 constant 1e-10, the quotient of the float64s 1 and 1e10.
F64Tenth10 ==
    F64Div(F64OfInt(1), F64Mul(F64OfInt(100000), F64OfInt(100000)))

\* Matrix[float64]{...} of the int literals of a.
Matrix64(a) ==
    Slice([i \in 1..Len(a) |-> Slice([j \in 1..Len(a[i]) |-> F64OfInt(a[i][j])])])

ZeroRows64(r, c) == Slice([i \in 1..r |-> Slice([j \in 1..c |-> F64Zero])])

AnyOutside(a) == \E i \in 1..Len(a) : \E j \in 1..Len(a[i]) : a[i][j].out

(***************************************************************************)
(* QRDecompose, Multiply and EigenvaluesQR on float64s.  fused tells       *)
(* whether the build fuses x*y + z into one rounding.                      *)
(***************************************************************************)
\* dot += q[i][k] * float64(m[i][j]) for i < t.
RECURSIVE Dot64(_, _, _, _)
Dot64(fused, x, y, t) ==
    IF t = 0 THEN F64Zero
    ELSE F64AddMul(fused, Dot64(fused, x, y, t - 1), x[t], y[t])

\* r[k][j] = dot, then v[i] -= dot * q[i][k].
QRProject64(fused, s, qk, j, k, dot) ==
    [s EXCEPT !.r[k][j] = dot,
              !.v = Slice([i \in 1..Len(qk) |-> F64SubMul(fused, s.v[i], dot, qk[i])])]

RECURSIVE QROrthogonalize64(_, _, _, _, _)
QROrthogonalize64(fused, s, mj, j, k) ==
    IF k >= j THEN s
    ELSE QROrthogonalize64(fused,
             QRProject64(fused, s, Column(s.q, k), j, k,
                         Dot64(fused, Column(s.q, k), mj, Len(mj))),
             mj, j, k + 1)

\* The dependence test on the norm of v, then r[j][j] and column j of q.
QRSetColumn64(s, j, norm) ==
    IF norm.out THEN [s EXCEPT !.exact = FALSE]
    ELSE IF F64Less(norm, F64Tenth10)
    THEN [s EXCEPT !.err = ErrorsNew("linearly dependent columns (zero norm)")]
    ELSE [s EXCEPT !.r[j][j] = norm,
                   !.q = Slice([i \in 1..Len(s.q) |->
                            [s.q[i] EXCEPT ![j] = F64Div(s.v[i], norm)]])]

QRStep64(fused, s, a, j) ==
    LET t == QROrthogonalize64(fused, [s EXCEPT !.v = Column(a, j)], Column(a, j), j, 1)
    IN  QRSetColumn64(t, j, MathSqrt64(Dot64(fused, t.v, t.v, Len(t.v))))

RECURSIVE QRLoop64(_, _, _, _)
QRLoop64(fused, s, a, j) ==
    IF j > Len(a[1]) \/ s.err # NilErr \/ ~s.exact THEN s
    ELSE QRLoop64(fused, QRStep64(fused, s, a, j), a, j + 1)

\* QRDecompose[float64] on float64s; exact is FALSE when a value left the
\* normal float64s.
QRDecompose64(fused, a) ==
    IF Validate(a) # NilErr THEN QRRet(NilMatrix, NilMatrix, Validate(a), TRUE)
    ELSE IF Len(a) = 0
    THEN QRRet(NilMatrix, NilMatrix, ErrorsNew("empty matrix"), TRUE)
    ELSE IF ~isSquare(a)
    THEN QRRet(NilMatrix, NilMatrix, ErrorsNew("matrix must be square"), TRUE)
    ELSE QRResult(QRLoop64(fused, [q |-> ZeroRows64(Len(a), Len(a[1])),
                                   r |-> ZeroRows64(Len(a[1]), Len(a[1])),
                                   v |-> <<>>, err |-> NilErr, exact |-> TRUE], a, 1))

\* result[i][j] += float64(a[i][k]) * float64(b[k][j]) for k < inner.
MultiplyRows64(fused, a, b) ==
    Slice([i \in 1..Len(a) |->
        Slice([j \in 1..Len(b[1]) |-> Dot64(fused, a[i], Column(b, j), Len(b))])])

\* Multiply[float64, float64] of two square matrices of one size.
Multiply64(fused, a, b) == MatRet(Mat(MultiplyRows64(fused, a, b)), NilErr)

\* math.Abs(current[i][i]-prevDiag[i]) > tol for no i.
Converged64(current, prevDiag, tol) ==
    \A i \in 1..Len(current) :
        ~F64Less(tol, F64Abs(F64Sub(current[i][i], prevDiag[i])))

\* The state of the loop: current and prevDiag, the iterations made,
\* whether the loop was left by break (done), and the error returned.
EigenState64(current, prevDiag, iter, done, err, exact, c) ==
    [current |-> current, prevDiag |-> prevDiag, iter |-> iter, done |-> done,
     err |-> err, exact |-> exact, calls |-> c]

\* The end of an iteration with the convergence test made in the first
\* iteration too.
EigenNext64TestsFirst(s, prod, tol, c) ==
    IF AnyOutside(prod)
    THEN [s EXCEPT !.exact = FALSE, !.calls = c]
    ELSE EigenState64(prod, s.prevDiag, s.iter + 1,
                      Converged64(prod, s.prevDiag, tol), NilErr, TRUE, c)

\* The end of an iteration: the convergence test, from the second
\* iteration on, on the product R * Q.
EigenNext64(s, prod, tol, c) ==
    IF AnyOutside(prod)
    THEN [s EXCEPT !.exact = FALSE, !.calls = c]
    ELSE EigenState64(prod, s.prevDiag, s.iter + 1,
                      s.iter > 0 /\ Converged64(prod, s.prevDiag, tol),
                      NilErr, TRUE, c)

\* An iteration after its QR decomposition qr, with the product Q * R.
EigenAfterQR64MultipliesQR(fused, s, qr, tol, c) ==
    IF ~qr.exact THEN [s EXCEPT !.exact = FALSE, !.calls = c]
    ELSE IF qr.err # NilErr THEN [s EXCEPT !.err = qr.err, !.calls = c]
    ELSE IF AnyOutside(qr.Q.rows) \/ AnyOutside(qr.R.rows)
    THEN [s EXCEPT !.exact = FALSE, !.calls = c]
    ELSE EigenNext64(s, Multiply64(fused, qr.Q.rows, qr.R.rows).mat.rows, tol,
                     [c EXCEPT !.mul = c.mul + 1])

\* An iteration after its QR decomposition qr.
EigenAfterQR64(fused, s, qr, tol, c) ==
    IF ~qr.exact THEN [s EXCEPT !.exact = FALSE, !.calls = c]
    ELSE IF qr.err # NilErr THEN [s EXCEPT !.err = qr.err, !.calls = c]
    ELSE IF AnyOutside(qr.Q.rows) \/ AnyOutside(qr.R.rows)
    THEN [s EXCEPT !.exact = FALSE, !.calls = c]
    ELSE EigenNext64(s, Multiply64(fused, qr.R.rows, qr.Q.rows).mat.rows, tol,
                     [c EXCEPT !.mul = c.mul + 1])

\* One iteration of the loop.
EigenStep64(fused, s, tol) ==
    EigenAfterQR64(fused, [s EXCEPT !.prevDiag = Diagonal(s.current)],
                   QRDecompose64(fused, s.current), tol,
                   [s.calls EXCEPT !.qr = s.calls.qr + 1])

\* k + 1 iterations of the loop, none of them after a break or a return.
RECURSIVE EigenSteps64OneMore(_, _, _, _)
EigenSteps64OneMore(fused, s, tol, k) ==
    IF s.done \/ s.err # NilErr \/ ~s.exact THEN s
    ELSE IF k = 0 THEN EigenStep64(fused, s, tol)
    ELSE EigenSteps64OneMore(fused, EigenStep64(fused, s, tol), tol, k - 1)

\* k iterations of the loop, none of them after a break or a return.
RECURSIVE EigenSteps64(_, _, _, _)
EigenSteps64(fused, s, tol, k) ==
    IF s.done \/ s.err # NilErr \/ ~s.exact THEN s
    ELSE IF k = 1 THEN EigenStep64(fused, s, tol)
    ELSE EigenSteps64(fused, EigenSteps64(fused, s, tol, k \div 2), tol, k - k \div 2)

\* What is returned after the loop.
EigenResult64(s) ==
    IF ~s.exact THEN EigenRet(<<>>, NilErr, FALSE, s.calls)
    ELSE IF s.err # NilErr THEN EigenRet(<<>>, s.err, TRUE, s.calls)
    ELSE EigenRet(Diagonal(s.current), NilErr, TRUE, s.calls)

EigenLoop64(fused, current, maxIter, tol) ==
    EigenResult64(EigenSteps64(fused,
        EigenState64(current, Diagonal(current), 0, FALSE, NilErr, TRUE, NoCalls),
        tol, maxIter))

\* EigenvaluesQR[float64] on float64s.
EigenvaluesQR64(fused, a, maxIter, tol) ==
    IF Validate(a) # NilErr THEN EigenRet(<<>>, Validate(a), TRUE, NoCalls)
    ELSE IF Len(a) = 0
    THEN EigenRet(<<>>, ErrorsNew("matrix cannot be empty"), TRUE, NoCalls)
    ELSE IF ~isSquare(a)
    THEN EigenRet(<<>>, ErrorsNew("matrix must be square"), TRUE, NoCalls)
    ELSE IF maxIter <= 0 THEN EigenRet(Diagonal(a), NilErr, TRUE, NoCalls)
    ELSE EigenLoop64(fused, a, maxIter, tol)

(***************************************************************************)
(* Rank: Gaussian elimination to row-echelon form on a working copy, with  *)
(* the largest magnitude of the pivot column at or below the pivot row as  *)
(* the pivot.                                                              *)
(***************************************************************************)
\* The zero threshold of Rank is 10^-RankEpsDigits.
RankEpsDigits == 10

\* The row of the largest magnitude in column col among the rows k..Len(a),
\* where best is the row found among the rows before k; ties keep the
\* earlier row.
RECURSIVE RankPivotScan(_, _, _, _)
RankPivotScan(a, col, k, best) ==
    IF k > Len(a) THEN best
    ELSE RankPivotScan(a, col, k + 1,
             IF RLess(MathAbs(a[best][col]), MathAbs(a[k][col])) THEN k ELSE best)

\* The pivot column is eliminated from the rows below the pivot row.
RankEliminate(a, row, col) ==
    Slice([r \in 1..Len(a) |->
        IF r <= row THEN a[r]
        ELSE Slice([j \in 1..Len(a[r]) |->
                 RSub(a[r][j], RMul(RDiv(a[r][col], a[row][col]), a[row][j]))])])

RECURSIVE RankLoop(_, _, _, _)

\* A step that leaves the pivot row behind when the column has no pivot.
RankStepSkipsRow(a, row, col, rank, p) ==
    IF BelowEps(MathAbs(a[p][col]), RankEpsDigits)
    THEN RankLoop(a, row + 1, col + 1, rank)
    ELSE RankLoop(RankEliminate(SwapRows(a, row, p), row, col),
                  row + 1, col + 1, rank + 1)

\* The step for the pivot row p of column col: a column whose best candidate
\* is below the threshold gives no pivot, another one is eliminated from the
\* rows below and counts.
RankStep(a, row, col, rank, p) ==
    IF BelowEps(MathAbs(a[p][col]), RankEpsDigits)
    THEN RankLoop(a, row, col + 1, rank)
    ELSE RankLoop(RankEliminate(SwapRows(a, row, p), row, col),
                  row + 1, col + 1, rank + 1)

\* The elimination from the pivot row and the pivot column on, until the
\* rows or the columns are exhausted.
RankLoop(a, row, col, rank) ==
    IF row > Len(a) \/ col > Len(a[1]) THEN rank
    ELSE RankStep(a, row, col, rank, RankPivotScan(a, col, row + 1, row))

\* Rank[float64] of a rectangular matrix; the empty matrix has rank 0.
RankFloat64(a) == IF Len(a) = 0 THEN 0 ELSE RankLoop(a, 1, 1, 0)

\* Rank[int]: the working copy holds the elements as float64.
Rank(a) == RankFloat64(gtoFloat64Matrix(a))

(***************************************************************************)
(* The inputs of the model.                                                *)
(***************************************************************************)
SquareInputs ==
    UNION {[1..n -> [1..n -> 0..MaxEntry]] : n \in SquareDims}

Negated(a) == Slice([i \in 1..Len(a) |-> Slice([j \in 1..Len(a[i]) |-> -a[i][j]])])

\* Row lengths 0..MaxShape for 1..MaxShape rows: rectangular and ragged shapes.
Shapes == UNION {[1..r -> 0..MaxShape] : r \in 1..MaxShape}

\* The matrix of a shape: 0 below the diagonal, 1 on it, 2, 3, ... to its
\* right.
Fill(shape) ==
    Slice([i \in 1..Len(shape) |->
        Slice([j \in 1..shape[i] |-> IF j >= i THEN j - i + 1 ELSE 0])])

\* The inputs that cover the shapes, the empty matrix among them.
ShapeInputs == {Fill(s) : s \in Shapes} \cup {<<>>}

\* The second operands of Multiply, Add and Subtract.
Shapes2 == UNION {[1..r -> 0..MaxShape2] : r \in 1..MaxShape2}

SecondOperands == {Fill(s) : s \in Shapes2} \cup {<<>>}

Inputs == SquareInputs \cup {Negated(a) : a \in SquareInputs} \cup ShapeInputs

Tolerances == {Zero, Rat(1, 2)}

Scalars == {-1, 2}

(***************************************************************************)
(* The state machine: one call on one input.                               *)
(***************************************************************************)
\* No loop is followed step by step.  Else i is the number of iterations
\* made, s the state of the loop after them and before the state before the
\* last of them.
NoLoop == [i |-> 0, before |-> <<>>, s |-> <<>>]

NoRet == [L |-> NilMatrix, U |-> NilMatrix, numSwaps |-> 0, val |-> Zero,
          mat |-> NilMatrix, Q |-> NilMatrix, R |-> NilMatrix, vals |-> <<>>,
          trace |-> 0, rank |-> 0, calls |-> NoCalls, elem |-> 0,
          panic |-> FALSE, loop |-> NoLoop, err |-> NilErr]

\* T and E are the element types of the operands.
\* row and col are the indices of Get and Set.
NoArg ==
    [n |-> 0, tol |-> Zero, T |-> "int", E |-> "int", row |-> 0, col |-> 0,
     fused |-> FALSE]

\* No result matrix is held, and no storage is followed.
NoOut == [L |-> 0, U |-> 0, mat |-> 0, Q |-> 0, R |-> 0]

NoMem == [rows |-> <<>>, outer |-> <<>>, data |-> 0, m |-> 0, x |-> 0,
          out |-> NoOut, writes |-> 0, setErr |-> NilErr]

Start(inputs) ==
    /\ m \in inputs
    /\ m2 = <<>>
    /\ arg = NoArg
    /\ op = "none"
    /\ ret = NoRet
    /\ mem = NoMem

\* The state before a call on the operand a of the element type T.
StartTyped(T, a) ==
    /\ m = a
    /\ m2 = <<>>
    /\ arg = [NoArg EXCEPT !.T = T]
    /\ op = "none"
    /\ ret = NoRet
    /\ mem = NoMem

\* A call of one matrix and no scalar argument.
Unary(name) ==
    /\ op = "none"
    /\ op' = name
    /\ UNCHANGED <<m, m2, arg, mem>>

Init == Start(Inputs)

CallLUDecompose ==
    /\ Unary("LUDecompose")
    /\ LET r == LUDecompose(m)
       IN  ret' = [NoRet EXCEPT !.L = r.L, !.U = r.U, !.numSwaps = r.numSwaps,
                                !.err = r.err]

CallDet ==
    /\ Unary("Det")
    /\ LET r == Det(m)
       IN  ret' = [NoRet EXCEPT !.val = r.val, !.err = r.err]

CallInverse ==
    /\ Unary("Inverse")
    /\ LET r == Inverse(m)
       IN  ret' = [NoRet EXCEPT !.mat = r.mat, !.err = r.err]

Next ==
    \/ CallLUDecompose
    \/ CallDet
    \/ CallInverse

Spec == Init /\ [][Next]_vars

(***************************************************************************)
(* The state machine of the calls on the inputs that cover the shapes.     *)
(***************************************************************************)
\* A call with the scalar arguments a.
Scalar(name, a) ==
    /\ op = "none"
    /\ op' = name
    /\ arg' = a
    /\ UNCHANGED <<m, m2, mem>>

\* A call with the second operand b.
Binary(name, b) ==
    /\ op = "none"
    /\ op' = name
    /\ m2' = b
    /\ UNCHANGED <<m, arg, mem>>

\* A call outside what exact arithmetic can follow is not made.
CallQRDecompose ==
    /\ Unary("QRDecompose")
    /\ LET r == QRDecompose(m)
       IN  /\ r.exact
           /\ ret' = [NoRet EXCEPT !.Q = r.Q, !.R = r.R, !.err = r.err]

CallEigenvaluesQR ==
    \E maxIter \in -1..MaxIter, tol \in Tolerances :
        /\ Scalar("EigenvaluesQR", [NoArg EXCEPT !.n = maxIter, !.tol = tol])
        /\ LET r == EigenvaluesQR(m, maxIter, tol)
           IN  /\ r.exact
               /\ ret' = [NoRet EXCEPT !.vals = r.vals, !.calls = r.calls,
                                        !.err = r.err]

CallPow ==
    \E n \in -MaxPow..MaxPow :
        /\ Scalar("Pow", [NoArg EXCEPT !.n = n])
        /\ LET r == Pow(m, n)
           IN  ret' = [NoRet EXCEPT !.mat = r.mat, !.err = r.err]

CallTrace ==
    /\ Unary("Trace")
    /\ LET r == Trace(m)
       IN  ret' = [NoRet EXCEPT !.trace = r.trace, !.err = r.err]

CallTranspose ==
    /\ Unary("Transpose")
    /\ ret' = [NoRet EXCEPT !.mat = Transpose(m)]

CallScale ==
    \E sc \in Scalars :
        /\ Scalar("Scale", [NoArg EXCEPT !.n = sc])
        /\ ret' = [NoRet EXCEPT !.mat = Scale(sc, m)]

CallMultiply ==
    \E b \in SecondOperands :
        /\ Binary("Multiply", b)
        /\ LET r == Multiply(m, b)
           IN  ret' = [NoRet EXCEPT !.mat = r.mat, !.err = r.err]

\* Multiply with the caller's matrix as the second operand.
CallMultiplyLeft ==
    \E a \in SecondOperands :
        /\ Binary("MultiplyLeft", a)
        /\ LET r == Multiply(a, m)
           IN  ret' = [NoRet EXCEPT !.mat = r.mat, !.err = r.err]

CallAdd ==
    \E b \in SecondOperands :
        /\ Binary("Add", b)
        /\ LET r == Add(m, b)
           IN  ret' = [NoRet EXCEPT !.mat = r.mat, !.err = r.err]

CallSubtract ==
    \E b \in SecondOperands :
        /\ Binary("Subtract", b)
        /\ LET r == Subtract(m, b)
           IN  ret' = [NoRet EXCEPT !.mat = r.mat, !.err = r.err]

InitShapes == Start(ShapeInputs)

NextShapes ==
    \/ CallLUDecompose
    \/ CallDet
    \/ CallInverse
    \/ CallQRDecompose
    \/ CallEigenvaluesQR
    \/ CallPow
    \/ CallTrace
    \/ CallTranspose
    \/ CallScale
    \/ CallMultiply
    \/ CallMultiplyLeft
    \/ CallAdd
    \/ CallSubtract

SpecShapes == InitShapes /\ [][NextShapes]_vars

(***************************************************************************)
(* Storage.  A Matrix is a slice of row slices: mem.outer[ref] is the      *)
(* array of the row slices of the matrix ref, each an address into         *)
(* mem.rows, the backing arrays of the rows.  ref 0 is the nil Matrix.     *)
(* In SpecMem the caller builds data ([][]float64), makes m by             *)
(* NewMatrix(data), calls one operation on m or on Matrix(data), and       *)
(* writes to data, to m or to a returned matrix.  m, m2 and ret hold what  *)
(* the caller expects m, data and the returned matrices to contain: the    *)
(* contents at their construction, changed by the caller's own writes.     *)
(***************************************************************************)
\* make(Matrix[float64], len(x)) with every row made and filled as in x: the
\* new matrix is Len(h.outer) + 1.
AllocMatrix(h, x) ==
    [h EXCEPT !.rows  = @ \o x,
              !.outer = Append(@, Slice([i \in 1..Len(x) |-> Len(h.rows) + i]))]

\* The rows read through ref.
Deref(h, ref) ==
    IF ref = 0 THEN <<>>
    ELSE Slice([i \in 1..Len(h.outer[ref]) |-> h.rows[h.outer[ref][i]]])

\* The backing arrays of the rows of ref.
Storage(h, ref) ==
    IF ref = 0 THEN {} ELSE {h.outer[ref][i] : i \in 1..Len(h.outer[ref])}

\* ref[i][k] = v for every k.
WriteElemFillsRow(h, ref, i, j, v) ==
    [h EXCEPT !.rows[h.outer[ref][i]] =
                  Slice([k \in 1..Len(h.rows[h.outer[ref][i]]) |-> v])]

\* ref[i][j] = v, 1-based.
WriteElem(h, ref, i, j, v) == [h EXCEPT !.rows[h.outer[ref][i]][j] = v]

\* The matrix ref after the swaps of its row slices and the writes to its
\* elements that leave the rows x to be read through it.
StoreRows(h, ref, x) ==
    [h EXCEPT !.rows = Slice([a \in 1..Len(h.rows) |->
        IF a \in Storage(h, ref)
        THEN x[CHOOSE i \in 1..Len(x) : h.outer[ref][i] = a]
        ELSE h.rows[a]])]

\* The matrix x, made by the operation, returned as its result f.
Return(h, f, x) ==
    IF x.nil THEN h
    ELSE [AllocMatrix(h, x.rows) EXCEPT !.out[f] = Len(h.outer) + 1]

\* An operation starts on the operand x, holding no result.
Enter(h, x) == [h EXCEPT !.x = x, !.out = NoOut]

\* gtoFloat64Matrix that returns its argument.
gtoFloat64MatrixAliases(h, x) == [h |-> h, ref |-> x]

\* gtoFloat64Matrix[float64]: a new matrix with the elements of x.
gtoFloat64MatrixMem(h, x) ==
    [h |-> AllocMatrix(h, Deref(h, x)), ref |-> Len(h.outer) + 1]

\* NewMatrix[float64], where float64(val) is val.
NewMatrixFloat64(a) ==
    IF Len(a) = 0 THEN MatRet(Mat(<<>>), NilErr)
    ELSE IF Validate(a) # NilErr THEN MatRet(NilMatrix, Validate(a))
    ELSE MatRet(Mat(a), NilErr)

\* m := NewMatrix(data).
NewMatrixMem(h, d) ==
    IF NewMatrixFloat64(Deref(h, d)).mat.nil THEN [h EXCEPT !.m = 0]
    ELSE [AllocMatrix(h, NewMatrixFloat64(Deref(h, d)).mat.rows)
              EXCEPT !.m = Len(h.outer) + 1]

\* LUDecompose working on the rows of its argument.
LUWorkingCopyAliases(h, x) == [h |-> h, ref |-> x]

\* The working copy a of LUDecompose: a new matrix with the elements of x.
LUWorkingCopy(h, x) ==
    [h |-> AllocMatrix(h, Deref(h, x)), ref |-> Len(h.outer) + 1]

\* LUDecompose after its validation, on the working copy w: the loop runs
\* on the working copy, and L and U are returned unless it failed.
LUOnCopy(w, s) ==
    [h |-> Return(Return(StoreRows(w.h, w.ref, s.a), "L", LUResult(s).L),
                  "U", LUResult(s).U),
     r |-> LUResult(s)]

LURunOnCopy(w) == LUOnCopy(w, LULoop(LUStart(Deref(w.h, w.ref)), 1))

\* LUDecompose[float64] on the matrix x: the storage h afterwards and the
\* results r.
LUDecomposeMem(h, x) ==
    IF \/ Validate(Deref(h, x)) # NilErr
       \/ Len(Deref(h, x)) = 0
       \/ ~isSquare(Deref(h, x))
    THEN [h |-> Enter(h, x), r |-> LUDecomposeFloat64(Deref(h, x))]
    ELSE LURunOnCopy(LUWorkingCopy(Enter(h, x), x))

\* Det[float64]: the storage is that of its LU step, of which nothing is
\* returned.
DetMem(h, x) ==
    [h |-> [LUDecomposeMem(h, x).h EXCEPT !.out = NoOut],
     r |-> DetFloat64(Deref(h, x))]

\* Inverse[float64]: the augmented matrix is made with rows of its own, and
\* so is the inverse returned.
InverseMem(h, x) ==
    IF Validate(Deref(h, x)) # NilErr \/ ~isSquare(Deref(h, x))
    THEN [h |-> Enter(h, x), r |-> InverseFloat64(Deref(h, x))]
    ELSE [h |-> Return(AllocMatrix(Enter(h, x), Augmented(Deref(h, x))), "mat",
                       InverseFloat64(Deref(h, x)).mat),
          r |-> InverseFloat64(Deref(h, x))]

\* QRDecompose[float64]: q and r are made with rows of their own.
QRReturn(h, r) == [h |-> Return(Return(h, "Q", r.Q), "R", r.R), r |-> r]

QRDecomposeMem(h, x) == QRReturn(Enter(h, x), QRDecomposeFloat64(Deref(h, x)))

\* EigenvaluesQR[float64]: current is gtoFloat64Matrix(m), and then each
\* product R * Q; a slice of floats is returned.
EigenvaluesQRMem(h, x, maxIter, tol) ==
    [h |-> IF \/ Validate(Deref(h, x)) # NilErr
              \/ Len(Deref(h, x)) = 0
              \/ ~isSquare(Deref(h, x))
           THEN Enter(h, x)
           ELSE gtoFloat64MatrixMem(Enter(h, x), x).h,
     r |-> EigenvaluesQRFloat64(Deref(h, x), maxIter, tol)]

\* Multiply[float64, float64]: result is made with rows of its own.
MultiplyMem(h, x, y) ==
    [h |-> Return(Enter(h, x), "mat", MultiplyFloat64(Deref(h, x), Deref(h, y)).mat),
     r |-> MultiplyFloat64(Deref(h, x), Deref(h, y))]

\* The result r of Pow in storage: for n = 1 it is gtoFloat64Matrix(m).
PowReturn(h, x, n, r) ==
    [h |-> IF r.err # NilErr THEN h
           ELSE IF n = 1
           THEN [gtoFloat64MatrixMem(h, x).h
                     EXCEPT !.out.mat = gtoFloat64MatrixMem(h, x).ref]
           ELSE Return(h, "mat", r.mat),
     r |-> r]

\* Pow[float64].
PowMem(h, x, n) == PowReturn(Enter(h, x), x, n, PowFloat64(Deref(h, x), n))

\* The number of rows of ref, and of columns of its row of 0-based index
\* row.
RowCount(h, ref) == IF ref = 0 THEN 0 ELSE Len(h.outer[ref])

ColCount(h, ref, row) == Len(h.rows[h.outer[ref][row + 1]])

\* An index out of bounds: the index and the length are in the message.
OutOfBounds(what, index, length) ==
    [msg |-> what, wrap |-> "", row |-> index, expected |-> 0, got |-> length]

\* (*m).Set(row, col, val) on the matrix ref, with 0-based indices.
SetAt(h, ref, row, col, val) ==
    IF row < 0 \/ row >= RowCount(h, ref)
    THEN [h |-> h,
          err |-> OutOfBounds("row index out of bounds", row, RowCount(h, ref))]
    ELSE IF col < 0 \/ col >= ColCount(h, ref, row)
    THEN [h |-> h,
          err |-> OutOfBounds("column index out of bounds", col,
                              ColCount(h, ref, row))]
    ELSE [h |-> WriteElem(h, ref, row + 1, col + 1, val), err |-> NilErr]

\* The slices the caller builds: the square ones of 2 rows, and those that
\* cover the shapes up to MemShape.
MemShapes == UNION {[1..r -> 0..MemShape] : r \in 1..MemShape}

MemInputs ==
    {gtoFloat64Matrix(a) : a \in [1..2 -> [1..2 -> 0..MaxEntry]]}
        \cup {gtoFloat64Matrix(Fill(sh)) : sh \in MemShapes}
        \cup {<<>>}

\* The value the caller writes: one that is in no input.
Written == F(MaxEntry + MemShape + 1)

\* The 0-based indices the caller writes at.
WriteIndices == 0..1

PowExponents == {-1, 0, 1, 2}

ResultFields == {"L", "U", "mat", "Q", "R"}

MemEngines ==
    {"LUDecompose", "QRDecompose", "Inverse", "Det", "EigenvaluesQR",
     "Multiply", "Pow"}

\* The caller's slice data is built.
InitMem ==
    /\ m2 \in MemInputs
    /\ m = <<>>
    /\ arg = NoArg
    /\ op = "none"
    /\ ret = NoRet
    /\ mem = [AllocMatrix(NoMem, m2) EXCEPT !.data = 1]

\* m, err := NewMatrix(data)
MemNewMatrix ==
    /\ op = "none"
    /\ op' = "NewMatrix"
    /\ mem' = NewMatrixMem(mem, mem.data)
    /\ m' = NewMatrixFloat64(m2).mat.rows
    /\ ret' = [NoRet EXCEPT !.err = NewMatrixFloat64(m2).err]
    /\ UNCHANGED <<m2, arg>>

\* The operands of a call: m, and Matrix[float64](data).
Operands == {mem.m, mem.data}

\* One operation is called after the construction, before any write.
MemCall(name, a) ==
    /\ op = "NewMatrix"
    /\ mem.writes = 0
    /\ op' = name
    /\ arg' = a
    /\ UNCHANGED <<m, m2>>

MemLUDecompose ==
    \E x \in Operands :
        /\ MemCall("LUDecompose", NoArg)
        /\ LET e == LUDecomposeMem(mem, x)
           IN  /\ mem' = e.h
               /\ ret' = [NoRet EXCEPT !.L = e.r.L, !.U = e.r.U,
                                       !.numSwaps = e.r.numSwaps, !.err = e.r.err]

MemDet ==
    \E x \in Operands :
        /\ MemCall("Det", NoArg)
        /\ LET e == DetMem(mem, x)
           IN  /\ mem' = e.h
               /\ ret' = [NoRet EXCEPT !.val = e.r.val, !.err = e.r.err]

MemInverse ==
    \E x \in Operands :
        /\ MemCall("Inverse", NoArg)
        /\ LET e == InverseMem(mem, x)
           IN  /\ mem' = e.h
               /\ ret' = [NoRet EXCEPT !.mat = e.r.mat, !.err = e.r.err]

MemQRDecompose ==
    \E x \in Operands :
        /\ MemCall("QRDecompose", NoArg)
        /\ LET e == QRDecomposeMem(mem, x)
           IN  /\ e.r.exact
               /\ mem' = e.h
               /\ ret' = [NoRet EXCEPT !.Q = e.r.Q, !.R = e.r.R, !.err = e.r.err]

MemEigenvaluesQR ==
    \E x \in Operands, maxIter \in {0, MaxIter} :
        /\ MemCall("EigenvaluesQR", [n |-> maxIter, tol |-> Zero])
        /\ LET e == EigenvaluesQRMem(mem, x, maxIter, Zero)
           IN  /\ e.r.exact
               /\ mem' = e.h
               /\ ret' = [NoRet EXCEPT !.vals = e.r.vals, !.err = e.r.err]

MemMultiply ==
    \E x \in Operands, y \in Operands :
        /\ MemCall("Multiply", NoArg)
        /\ LET e == MultiplyMem(mem, x, y)
           IN  /\ mem' = e.h
               /\ ret' = [NoRet EXCEPT !.mat = e.r.mat, !.err = e.r.err]

MemPow ==
    \E x \in Operands, n \in PowExponents :
        /\ MemCall("Pow", [NoArg EXCEPT !.n = n])
        /\ LET e == PowMem(mem, x, n)
           IN  /\ mem' = e.h
               /\ ret' = [NoRet EXCEPT !.mat = e.r.mat, !.err = e.r.err]

\* A write of the caller, after the construction of m.
MemWrite ==
    /\ op # "none"
    /\ mem.writes < MaxWrites
    /\ UNCHANGED <<op, arg>>

\* data[i][j] = Written, for indices in range.
WriteData ==
    \E i \in WriteIndices, j \in WriteIndices :
        /\ MemWrite
        /\ i < Len(m2)
        /\ j < Len(m2[i + 1])
        /\ mem' = [WriteElem(mem, mem.data, i + 1, j + 1, Written)
                       EXCEPT !.writes = @ + 1]
        /\ m2' = [m2 EXCEPT ![i + 1][j + 1] = Written]
        /\ UNCHANGED <<m, ret>>

\* m.Set(i, j, Written)
SetInput ==
    \E i \in WriteIndices, j \in WriteIndices :
        /\ MemWrite
        /\ LET w == SetAt(mem, mem.m, i, j, Written)
           IN  /\ mem' = [w.h EXCEPT !.writes = @ + 1, !.setErr = w.err]
               /\ m' = IF w.err = NilErr
                       THEN [m EXCEPT ![i + 1][j + 1] = Written] ELSE m
        /\ UNCHANGED <<m2, ret>>

\* r.Set(i, j, Written) on a returned matrix r.
SetResult ==
    \E f \in ResultFields, i \in WriteIndices, j \in WriteIndices :
        /\ MemWrite
        /\ mem.out[f] # 0
        /\ LET w == SetAt(mem, mem.out[f], i, j, Written)
           IN  /\ mem' = [w.h EXCEPT !.writes = @ + 1, !.setErr = w.err]
               /\ ret' = IF w.err = NilErr
                         THEN [ret EXCEPT ![f].rows[i + 1][j + 1] = Written]
                         ELSE ret
        /\ UNCHANGED <<m, m2>>

NextMem ==
    \/ MemNewMatrix
    \/ MemLUDecompose
    \/ MemDet
    \/ MemInverse
    \/ MemQRDecompose
    \/ MemEigenvaluesQR
    \/ MemMultiply
    \/ MemPow
    \/ WriteData
    \/ SetInput
    \/ SetResult

SpecMem == InitMem /\ [][NextMem]_vars

(***************************************************************************)
(* QRDecompose on inputs with columns of rational norm.                    *)
(***************************************************************************)
\* The matrices of 2 rows with elements of magnitude up to QRMaxEntry, and
\* the square inputs.
QRCandidates ==
    [1..2 -> [1..2 -> -QRMaxEntry..QRMaxEntry]] \cup SquareInputs

\* The candidates on which every norm QRDecompose takes is rational.
QRInputs == {a \in QRCandidates : QRDecompose(a).exact}

InitQR == Start(QRInputs)

NextQR == CallQRDecompose

SpecQR == InitQR /\ [][NextQR]_vars

(***************************************************************************)
(* EigenvaluesQR on the square inputs.                                     *)
(***************************************************************************)
\* The matrices of 2 rows with elements of magnitude up to EigenMaxEntry, and
\* the square inputs.
EigenInputs ==
    [1..2 -> [1..2 -> -EigenMaxEntry..EigenMaxEntry]] \cup SquareInputs

InitEigen == Start(EigenInputs)

NextEigen == CallEigenvaluesQR

SpecEigen == InitEigen /\ [][NextEigen]_vars

(***************************************************************************)
(* Multiply on operands of the element types int and float64.              *)
(***************************************************************************)
ElemTypes == {"int", "float64"}

MulDims == 1..2

\* Elements of the type T: the ints lo..hi, or the float64s lo/2..hi/2.
Elements(T, lo, hi) ==
    IF T = "int" THEN lo..hi ELSE {Rat(n, 2) : n \in lo..hi}

MulOperands(T, lo, hi) ==
    UNION {[1..rc[1] -> [1..rc[2] -> Elements(T, lo, hi)]] : rc \in MulDims \X MulDims}

InitMultiply ==
    \E T \in ElemTypes :
        \E a \in MulOperands(T, -MulEntry, MulEntry) : StartTyped(T, a)

CallMultiplyTE ==
    \E E \in ElemTypes :
        \E b \in MulOperands(E, 0, MulEntry) :
            /\ op = "none"
            /\ op' = "Multiply"
            /\ m2' = b
            /\ arg' = [arg EXCEPT !.E = E]
            /\ UNCHANGED <<m, mem>>
            /\ LET r == MultiplyTE(arg.T, E, m, b)
               IN  ret' = [NoRet EXCEPT !.mat = r.mat, !.err = r.err]

NextMultiply == CallMultiplyTE

SpecMultiply == InitMultiply /\ [][NextMultiply]_vars

(***************************************************************************)
(* Rank on rectangular inputs.                                             *)
(***************************************************************************)
RankDims == 1..3

\* The rectangular matrices with elements of -1..MaxEntry, and the empty one.
RankInputs ==
    UNION {[1..rc[1] -> [1..rc[2] -> -1..MaxEntry]] : rc \in RankDims \X RankDims}
        \cup {<<>>}

InitRank == Start(RankInputs)

CallRank ==
    /\ Unary("Rank")
    /\ ret' = [NoRet EXCEPT !.rank = Rank(m)]

NextRank == CallRank

SpecRank == InitRank /\ [][NextRank]_vars

(***************************************************************************)
(* Get and Set.  Indices are 0-based; an index expression s[i] outside     *)
(* 0..len(s)-1 is a run-time panic.                                        *)
(***************************************************************************)
AccessRet(a, v, e, p) == [mat |-> a, elem |-> v, err |-> e, panic |-> p]

\* s[i] panics.
IndexPanics(s, i) == i < 0 \/ i >= Len(s)

\* The error of a row index out of bounds: the index and the row count.
RowOutOfBounds(a, row) == OutOfBounds("row index out of bounds", row, Len(a))

\* The error of a column index out of bounds: the index and the row length.
ColOutOfBounds(a, row, col) ==
    OutOfBounds("column index out of bounds", col, Len(a[row + 1]))

\* (*m).Get(row, col): the element, or the zero value and an error.
Get(a, row, col) ==
    IF row < 0 \/ row >= Len(a) THEN AccessRet(a, 0, RowOutOfBounds(a, row), FALSE)
    ELSE IF IndexPanics(a, row) THEN AccessRet(a, 0, NilErr, TRUE)
    ELSE IF col < 0 \/ col >= Len(a[row + 1])
    THEN AccessRet(a, 0, ColOutOfBounds(a, row, col), FALSE)
    ELSE IF IndexPanics(a[row + 1], col) THEN AccessRet(a, 0, NilErr, TRUE)
    ELSE AccessRet(a, a[row + 1][col + 1], NilErr, FALSE)

\* Set with the row index tested by row > len(*m).
SetRowOffByOne(a, row, col, val) ==
    IF row < 0 \/ row > Len(a) THEN AccessRet(a, 0, RowOutOfBounds(a, row), FALSE)
    ELSE IF IndexPanics(a, row) THEN AccessRet(a, 0, NilErr, TRUE)
    ELSE IF col < 0 \/ col >= Len(a[row + 1])
    THEN AccessRet(a, 0, ColOutOfBounds(a, row, col), FALSE)
    ELSE IF IndexPanics(a[row + 1], col) THEN AccessRet(a, 0, NilErr, TRUE)
    ELSE AccessRet([a EXCEPT ![row + 1][col + 1] = val], 0, NilErr, FALSE)

\* (*m).Set(row, col, val): mat is the matrix after the call.
Set(a, row, col, val) ==
    IF row < 0 \/ row >= Len(a) THEN AccessRet(a, 0, RowOutOfBounds(a, row), FALSE)
    ELSE IF IndexPanics(a, row) THEN AccessRet(a, 0, NilErr, TRUE)
    ELSE IF col < 0 \/ col >= Len(a[row + 1])
    THEN AccessRet(a, 0, ColOutOfBounds(a, row, col), FALSE)
    ELSE IF IndexPanics(a[row + 1], col) THEN AccessRet(a, 0, NilErr, TRUE)
    ELSE AccessRet([a EXCEPT ![row + 1][col + 1] = val], 0, NilErr, FALSE)

\* The indices tried: -1, and 0 up to the largest row count and row length.
AccessIndices == -1..MaxShape

\* The value written by Set.
SetValue == MaxShape + 2

\* A call of Get or Set: m2 keeps the matrix as it was before the call.
Access(name, row, col) ==
    /\ op = "none"
    /\ op' = name
    /\ arg' = [NoArg EXCEPT !.row = row, !.col = col]
    /\ m2' = m
    /\ UNCHANGED mem

CallGet ==
    \E row \in AccessIndices, col \in AccessIndices :
        /\ Access("Get", row, col)
        /\ LET r == Get(m, row, col)
           IN  /\ ret' = [NoRet EXCEPT !.elem = r.elem, !.err = r.err,
                                       !.panic = r.panic]
               /\ m' = r.mat

CallSet ==
    \E row \in AccessIndices, col \in AccessIndices :
        /\ Access("Set", row, col)
        /\ LET r == Set(m, row, col, SetValue)
           IN  /\ ret' = [NoRet EXCEPT !.err = r.err, !.panic = r.panic]
               /\ m' = r.mat

InitAccess == Start(ShapeInputs)

NextAccess ==
    \/ CallGet
    \/ CallSet

SpecAccess == InitAccess /\ [][NextAccess]_vars

(***************************************************************************)
(* Pow on the inputs of the model.                                         *)
(***************************************************************************)
InitPow == Start(Inputs)

NextPow == CallPow

SpecPow == InitPow /\ [][NextPow]_vars

(***************************************************************************)
(* Inverse, and Inverse of the matrix it returned.                         *)
(***************************************************************************)
InitInverse == Start(Inputs)

\* Inverse[float64] called on the matrix the first call returned.
CallInverseAgain ==
    /\ op = "Inverse"
    /\ ret.err = NilErr
    /\ op' = "InverseInverse"
    /\ UNCHANGED <<m, m2, arg, mem>>
    /\ LET r == InverseFloat64(ret.mat.rows)
       IN  ret' = [NoRet EXCEPT !.mat = r.mat, !.err = r.err]

NextInverse ==
    \/ CallInverse
    \/ CallInverseAgain

SpecInverse == InitInverse /\ [][NextInverse]_vars

(***************************************************************************)
(* EigenvaluesQR[float64] in float64 arithmetic, on symmetric 2x2          *)
(* matrices.  arg.fused is the build: whether it fuses a product and a sum *)
(* into one rounding, which Go allows.                                     *)
(***************************************************************************)
\* maxIter of the test "2x2 symmetric matrix".
TestIter == 100

FloatIters == {0, 1, 2, TestIter}

FloatInputs ==
    {a \in [1..2 -> [1..2 -> 0..FloatMaxEntry]] : a[1][2] = a[2][1]}

InitFloat ==
    /\ m \in FloatInputs
    /\ m2 = <<>>
    /\ arg \in {[NoArg EXCEPT !.T = "float64", !.fused = b] : b \in BOOLEAN}
    /\ op = "none"
    /\ ret = NoRet
    /\ mem = NoMem

EigenReturns64(r) ==
    /\ r.exact
    /\ ret' = [NoRet EXCEPT !.vals = r.vals, !.calls = r.calls, !.err = r.err]

\* EigenvaluesQR(Matrix[float64]{...}, maxIter, 1e-10)
CallEigenvaluesQR64 ==
    \E maxIter \in FloatIters :
        /\ arg.T = "float64"
        /\ Scalar("EigenvaluesQR", [arg EXCEPT !.n = maxIter, !.tol = F64Tenth10])
        /\ EigenReturns64(EigenvaluesQR64(arg.fused, Matrix64(m), maxIter, F64Tenth10))

NextFloat == CallEigenvaluesQR64

SpecFloat == InitFloat /\ [][NextFloat]_vars

(***************************************************************************)
(* LUDecompose, one iteration of its loop over the pivots at a time.       *)
(***************************************************************************)
InLoop(name) == name \o ":loop"

\* The checks before the loop, and the state before the first iteration.
LUDecomposeEnter ==
    /\ op = "none"
    /\ IF Validate(m) # NilErr \/ Len(m) = 0 \/ ~isSquare(m)
       THEN /\ op' = "LUDecompose"
            /\ ret' = [NoRet EXCEPT !.err = LUDecompose(m).err]
       ELSE /\ op' = InLoop("LUDecompose")
            /\ ret' = [NoRet EXCEPT !.loop =
                          [i |-> 0, before |-> LUStart(gtoFloat64Matrix(m)),
                           s |-> LUStart(gtoFloat64Matrix(m))]]
    /\ UNCHANGED <<m, m2, arg, mem>>

LUDecomposeIterate ==
    /\ op = InLoop("LUDecompose")
    /\ ret.loop.i < Len(m)
    /\ ret.loop.s.err = NilErr
    /\ ret' = [ret EXCEPT !.loop = [i |-> ret.loop.i + 1, before |-> ret.loop.s,
                                    s |-> LUStep(ret.loop.s, ret.loop.i + 1)]]
    /\ UNCHANGED <<m, m2, arg, op, mem>>

LUReturns(r) ==
    ret' = [ret EXCEPT !.L = r.L, !.U = r.U, !.numSwaps = r.numSwaps, !.err = r.err]

LUDecomposeReturn ==
    /\ op = InLoop("LUDecompose")
    /\ ret.loop.i >= Len(m) \/ ret.loop.s.err # NilErr
    /\ op' = "LUDecompose"
    /\ LUReturns(LUResult(ret.loop.s))
    /\ UNCHANGED <<m, m2, arg, mem>>

InitLUSteps == Start(Inputs)

NextLUSteps ==
    \/ LUDecomposeEnter
    \/ LUDecomposeIterate
    \/ LUDecomposeReturn

SpecLUSteps == InitLUSteps /\ [][NextLUSteps]_vars

(***************************************************************************)
(* LUDecompose on 3 x 3 matrices of elements of more than one magnitude.   *)
(***************************************************************************)
PivotInputs == [1..3 -> [1..3 -> 0..PivotMaxEntry]]

InitPivot == Start(PivotInputs)

NextPivot == CallLUDecompose

SpecPivot == InitPivot /\ [][NextPivot]_vars

(***************************************************************************)
(* QRDecompose in float64 arithmetic, on 2 x 2 matrices of whole numbers   *)
(* whose second column is a multiple of the first.                         *)
(***************************************************************************)
QRElements == {1, 2, 3, 23872, 24337, 699675, 896205}

DependentInputs ==
    {<< <<a, k * a>>, <<b, k * b>> >> : a \in QRElements, b \in QRElements,
                                       k \in 1..QRFactorMax}

InitQRFloat ==
    /\ m \in DependentInputs
    /\ m2 = <<>>
    /\ arg \in {[NoArg EXCEPT !.fused = b] : b \in BOOLEAN}
    /\ op = "none"
    /\ ret = NoRet
    /\ mem = NoMem

QRReturns64(r) ==
    /\ r.exact
    /\ ret' = [NoRet EXCEPT !.Q = r.Q, !.R = r.R, !.err = r.err]

\* QRDecompose(A) for a matrix A of whole numbers.
CallQRDecompose64 ==
    /\ Unary("QRDecompose")
    /\ QRReturns64(QRDecompose64(arg.fused, Matrix64(m)))

NextQRFloat == CallQRDecompose64

SpecQRFloat == InitQRFloat /\ [][NextQRFloat]_vars

(***************************************************************************)
(* EigenvaluesQR on float64 matrices with a tolerance that is negative,    *)
(* zero or positive.                                                       *)
(***************************************************************************)
TolInputs == [1..2 -> [1..2 -> 0..TolMaxEntry]]

Tolerances64 == {F64Neg(F64Tenth10), F64Zero, F64Tenth10}

TolIters == {-1, 0, 1, TolMaxIter}

InitTol ==
    /\ m \in TolInputs
    /\ m2 = <<>>
    /\ arg \in {[NoArg EXCEPT !.T = "float64", !.fused = b] : b \in BOOLEAN}
    /\ op = "none"
    /\ ret = NoRet
    /\ mem = NoMem

\* EigenvaluesQR(Matrix[float64]{...}, maxIter, tol)
CallEigenvaluesQRTol(maxIter, tol) ==
    /\ arg.T = "float64"
    /\ Scalar("EigenvaluesQR", [arg EXCEPT !.n = maxIter, !.tol = tol])
    /\ EigenReturns64(EigenvaluesQR64(arg.fused, Matrix64(m), maxIter, tol))

NextTol ==
    \E maxIter \in TolIters, tol \in Tolerances64 :
        CallEigenvaluesQRTol(maxIter, tol)

SpecTol == InitTol /\ [][NextTol]_vars


(***************************************************************************)
(* Inverse with the Gauss-Jordan loop followed one iteration at a time:    *)
(* ret.loop holds the iterations made, the augmented matrix before the     *)
(* last one, and the one after it.                                         *)
(***************************************************************************)
InverseEnter ==
    /\ op = "none"
    /\ IF Validate(m) # NilErr \/ ~isSquare(m)
       THEN /\ op' = "Inverse"
            /\ ret' = [NoRet EXCEPT !.mat = Inverse(m).mat, !.err = Inverse(m).err]
       ELSE /\ op' = InLoop("Inverse")
            /\ ret' = [NoRet EXCEPT !.loop =
                          [i |-> 0,
                           before |-> InverseStart(gtoFloat64Matrix(m)),
                           s |-> InverseStart(gtoFloat64Matrix(m))]]
    /\ UNCHANGED <<m, m2, arg, mem>>

InverseIterate ==
    /\ op = InLoop("Inverse")
    /\ ret.loop.i < Len(m)
    /\ ret.loop.s.err = NilErr
    /\ ret' = [ret EXCEPT !.loop =
                  [i |-> ret.loop.i + 1,
                   before |-> ret.loop.s,
                   s |-> InverseStep(ret.loop.s, ret.loop.i + 1)]]
    /\ UNCHANGED <<m, m2, arg, op, mem>>

InverseReturns(r) == ret' = [ret EXCEPT !.mat = r.mat, !.err = r.err]

InverseReturn ==
    /\ op = InLoop("Inverse")
    /\ ret.loop.i >= Len(m) \/ ret.loop.s.err # NilErr
    /\ op' = "Inverse"
    /\ InverseReturns(InverseResult(ret.loop.s, Len(m)))
    /\ UNCHANGED <<m, m2, arg, mem>>

InitInverseSteps == Start(Inputs)

NextInverseSteps ==
    \/ InverseEnter
    \/ InverseIterate
    \/ InverseReturn

SpecInverseSteps == InitInverseSteps /\ [][NextInverseSteps]_vars

(***************************************************************************)
(* Set and Get on a matrix in storage: m is the matrix as it is read       *)
(* through its row slices after the call, m2 as it was before the first    *)
(* call.                                                                   *)
(***************************************************************************)
InitSetGet ==
    /\ m \in ShapeInputs
    /\ m2 = <<>>
    /\ arg = NoArg
    /\ op = "none"
    /\ ret = NoRet
    /\ mem = [AllocMatrix(NoMem, m) EXCEPT !.m = 1]

GetReturns(r) ==
    ret' = [NoRet EXCEPT !.elem = r.elem, !.err = r.err, !.panic = r.panic]

\* v, err := m.Get(row, col)
CallGetStored ==
    \E row \in AccessIndices, col \in AccessIndices :
        /\ Access("Get", row, col)
        /\ GetReturns(Get(Deref(mem, mem.m), row, col))
        /\ m' = Deref(mem, mem.m)

SetReturns(w) ==
    /\ mem' = [w.h EXCEPT !.setErr = w.err]
    /\ m' = Deref(w.h, mem.m)
    /\ ret' = [NoRet EXCEPT !.err = w.err]

\* err := m.Set(row, col, SetValue)
CallSetStored ==
    \E row \in AccessIndices, col \in AccessIndices :
        /\ op = "none"
        /\ op' = "Set"
        /\ arg' = [NoArg EXCEPT !.row = row, !.col = col]
        /\ m2' = m
        /\ SetReturns(SetAt(mem, mem.m, row, col, SetValue))

\* v, err := m.Get(row, col) after m.Set(row, col, SetValue) returned nil.
CallGetAfterSet ==
    /\ op = "Set"
    /\ ret.err = NilErr
    /\ op' = "SetGet"
    /\ GetReturns(Get(Deref(mem, mem.m), arg.row, arg.col))
    /\ m' = Deref(mem, mem.m)
    /\ UNCHANGED <<m2, arg, mem>>

NextSetGet ==
    \/ CallGetStored
    \/ CallSetStored
    \/ CallGetAfterSet

SpecSetGet == InitSetGet /\ [][NextSetGet]_vars

(***************************************************************************)
(* Pow with its recursion followed one call at a time.  The exponent is an *)
(* int of IntBits bits in two's complement: int is 32 or 64 bits wide, and *)
(* the narrower one is within the integers of the model checker.           *)
(* ret.loop.i counts the calls Pow(inv, -n) entered, ret.loop.s holds the  *)
(* arguments of the innermost call.                                        *)
(***************************************************************************)
IntBits == 32

MaxInt == (2^(IntBits - 2) - 1) + 2^(IntBits - 2)

MinInt == -MaxInt - 1

\* -n on an int: the negation of the most negative int wraps to itself.
WrapNeg(n) == IF n = MinInt THEN MinInt ELSE -n

WideExponents == {MinInt} \cup (-MaxPow..MaxPow)

\* The call goes on to Pow(inv, -n): the checks passed, n < 0, and Inverse
\* returned no error.
PowGoesDeeper(c) ==
    /\ Validate(c.a) = NilErr
    /\ Len(c.a) # 0
    /\ isSquare(c.a)
    /\ c.n < 0
    /\ InverseFloat64(c.a).err = NilErr

\* Pow(m, n) is called.
PowEnter ==
    \E n \in WideExponents :
        /\ op = "none"
        /\ op' = InLoop("Pow")
        /\ arg' = [NoArg EXCEPT !.n = n]
        /\ ret' = [NoRet EXCEPT !.loop =
                      [i |-> 0, before |-> <<>>,
                       s |-> [a |-> gtoFloat64Matrix(m), n |-> n]]]
        /\ UNCHANGED <<m, m2, mem>>

\* return Pow(inv, -n)
PowRecurse ==
    /\ op = InLoop("Pow")
    /\ PowGoesDeeper(ret.loop.s)
    /\ ret.loop.i < StackDepth
    /\ ret' = [ret EXCEPT !.loop =
                  [i |-> ret.loop.i + 1,
                   before |-> ret.loop.s,
                   s |-> [a |-> InverseFloat64(ret.loop.s.a).mat.rows,
                          n |-> WrapNeg(ret.loop.s.n)]]]
    /\ UNCHANGED <<m, m2, arg, op, mem>>

\* The stack is full: the run ends with a fatal error.
PowStackOverflow ==
    /\ op = InLoop("Pow")
    /\ PowGoesDeeper(ret.loop.s)
    /\ ret.loop.i >= StackDepth
    /\ op' = "Pow:stack overflow"
    /\ UNCHANGED <<m, m2, arg, ret, mem>>

PowReturns(r) == ret' = [ret EXCEPT !.mat = r.mat, !.err = r.err]

\* The innermost call returns, and every call above it returns its result.
PowLeave ==
    /\ op = InLoop("Pow")
    /\ ~PowGoesDeeper(ret.loop.s)
    /\ op' = "Pow"
    /\ PowReturns(PowFloat64(ret.loop.s.a, ret.loop.s.n))
    /\ UNCHANGED <<m, m2, arg, mem>>

InitPowSteps == Start(Inputs)

NextPowSteps ==
    \/ PowEnter
    \/ PowRecurse
    \/ PowStackOverflow
    \/ PowLeave

SpecPowSteps == InitPowSteps /\ [][NextPowSteps]_vars

(***************************************************************************)
(* Reference notions the properties are stated with.                       *)
(***************************************************************************)
RowPermutations(n) == {p \in [1..n -> 1..n] : \A i, j \in 1..n : p[i] = p[j] => i = j}

\* 0 for an even permutation, 1 for an odd one.
Parity(p) ==
    Cardinality({ij \in (DOMAIN p) \X (DOMAIN p) : ij[1] < ij[2] /\ p[ij[1]] > p[ij[2]]}) % 2

RECURSIVE TermProduct(_, _, _)
TermProduct(a, p, i) ==
    IF i = 0 THEN 1 ELSE TermProduct(a, p, i - 1) * a[i][p[i]]

RECURSIVE SumOver(_, _, _)
SumOver(a, ps, acc) ==
    IF ps = {} THEN acc
    ELSE LET p == CHOOSE x \in ps : TRUE
         IN  SumOver(a, ps \ {p},
                     acc + (IF Parity(p) = 0 THEN 1 ELSE -1) * TermProduct(a, p, Len(a)))

\* The determinant of a square matrix of ints by the Leibniz formula.
Leibniz(a) == SumOver(a, RowPermutations(Len(a)), 0)

RECURSIVE DotRange(_, _, _, _, _)
DotRange(x, y, i, j, t) ==
    IF t = 0 THEN Zero
    ELSE RAdd(DotRange(x, y, i, j, t - 1), RMul(x[i][t], y[t][j]))

\* The product of two matrices of float64 of matching shapes.
MatProduct(x, y) ==
    [i \in 1..Len(x) |-> [j \in 1..Len(y[1]) |-> DotRange(x, y, i, j, Len(y))]]

ValidSquare(a) == Validate(a) = NilErr /\ isSquare(a)

(***************************************************************************)
(* Properties of LUDecompose and Det.                                      *)
(***************************************************************************)
\* C1: for every valid non-empty square matrix, Det returns a nil error and
\* the determinant of the matrix as the Leibniz formula defines it.
DetIsDeterminant ==
    (op = "Det" /\ ValidSquare(m)) =>
        (ret.err = NilErr /\ ret.val = F(Leibniz(m)))

\* C2: whenever LUDecompose returns no error, L has 1 on the diagonal and 0
\* above it, U has 0 below the diagonal, and L * U is the rows of A permuted
\* by a permutation whose parity is the parity of the returned swap count.
LUFactorsPermutedInput ==
    (op = "LUDecompose" /\ ret.err = NilErr) =>
        LET n == Len(m)
            L == ret.L.rows
            U == ret.U.rows
            A == gtoFloat64Matrix(m)
        IN  /\ ~ret.L.nil /\ ~ret.U.nil
            /\ \A i \in 1..n : L[i][i] = One
            /\ \A i, j \in 1..n : i < j => L[i][j] = Zero
            /\ \A i, j \in 1..n : i > j => U[i][j] = Zero
            /\ \E p \in RowPermutations(n) :
                  /\ Parity(p) = ret.numSwaps % 2
                  /\ MatProduct(L, U) = [i \in 1..n |-> A[p[i]]]

\* A 3 x 3 factorization with a row swap and a non-zero multiplier in L.
LUFactorsWitness ==
    /\ op = "LUDecompose" /\ ret.err = NilErr
    /\ Len(m) = 3 /\ ret.numSwaps >= 1
    /\ \E i, j \in 1..3 : i > j /\ ret.L.rows[i][j] # Zero

\* C3: Det never returns the singularity error: when the LU step reports
\* "matrix is singular" Det returns 0.0 and a nil error, and Det returns an
\* error only for a ragged, an empty or a non-square matrix.
DetNeverSingularError ==
    op = "Det" =>
        /\ ret.err.msg # "matrix is singular"
        /\ LUDecompose(m).err.msg = "matrix is singular" =>
              (ret.val = Zero /\ ret.err = NilErr)
        /\ ret.err # NilErr =>
              (Validate(m) # NilErr \/ Len(m) = 0 \/ ~isSquare(m))

\* Det of a matrix whose LU step fails as singular after the first pivot.
DetSingularWitness ==
    /\ op = "Det" /\ Len(m) = 3 /\ ValidSquare(m) /\ m[1][1] # 0
    /\ LUDecompose(m).err.msg = "matrix is singular"
    /\ ret.val = Zero /\ ret.err = NilErr

(***************************************************************************)
(* Properties of Inverse.                                                  *)
(***************************************************************************)
\* C4: for every square invertible matrix A, Inverse returns a nil error and
\* a matrix B with A * B equal to the identity.
InverseTimesInputIsIdentity ==
    (op = "Inverse" /\ ValidSquare(m) /\ Leibniz(m) # 0) =>
        /\ ret.err = NilErr
        /\ ~ret.mat.nil
        /\ MatProduct(gtoFloat64Matrix(m), ret.mat.rows) = Identity(Len(m))

\* The inverse of a 3 x 3 matrix found after a row swap, with an element
\* that is not an integer.
InverseWitness ==
    /\ op = "Inverse" /\ Len(m) = 3 /\ ValidSquare(m) /\ Leibniz(m) # 0
    /\ m[1][1] = 0
    /\ ret.err = NilErr
    /\ \E i, j \in 1..3 : ret.mat.rows[i][j][2] # 1

\* C5: for a valid non-empty square matrix, Inverse returns "matrix is
\* singular" if and only if the matrix is singular; for a non-square matrix
\* it returns "cannot invert a non-square matrix"; with either error the
\* returned matrix is nil.
InverseErrors ==
    (op = "Inverse" /\ Validate(m) = NilErr /\ Len(m) > 0) =>
        /\ isSquare(m) =>
              (ret.err = ErrorsNew("matrix is singular") <=> Leibniz(m) = 0)
        /\ isSquare(m) => (ret.err = NilErr <=> Leibniz(m) # 0)
        /\ ~isSquare(m) =>
              ret.err = ErrorsNew("cannot invert a non-square matrix")
        /\ ret.err # NilErr => ret.mat = NilMatrix

\* A singular 3 x 3 matrix whose first two pivots are found.
InverseSingularWitness ==
    /\ op = "Inverse" /\ Len(m) = 3 /\ ValidSquare(m)
    /\ m[1][1] # 0 /\ m[1][1] * m[2][2] # m[1][2] * m[2][1]
    /\ ret.err = ErrorsNew("matrix is singular") /\ ret.mat = NilMatrix

\* The five engines.
Engines == {"LUDecompose", "QRDecompose", "Inverse", "Det", "EigenvaluesQR"}

\* The messages that name an empty input, and those that name a non-square
\* one.
EmptyMessages ==
    {"matrix is empty", "empty matrix", "matrix cannot be empty"}

NonSquareMessages ==
    {"matrix is not square", "matrix must be square",
     "cannot invert a non-square matrix"}

\* C6: each engine rejects a matrix of 0 rows with an error that names the
\* empty input, and a non-empty non-square matrix with an error that names
\* the non-square input; the two errors of an engine differ.
EnginesRejectEmptyAndNonSquare ==
    (op \in Engines /\ Validate(m) = NilErr) =>
        /\ Len(m) = 0 => ret.err.msg \in EmptyMessages
        /\ (Len(m) > 0 /\ ~isSquare(m)) => ret.err.msg \in NonSquareMessages

\* C7: every operation called on a matrix whose rows differ in length
\* returns an error.
RaggedNeverTolerated ==
    (op # "none" /\ Validate(m) # NilErr) => ret.err # NilErr

\* What the caller's matrices hold is what the caller expects.
InputsAsExpected ==
    /\ Deref(mem, mem.m) = m
    /\ Deref(mem, mem.data) = m2

\* C8: after a call of LUDecompose, QRDecompose, Inverse, Det, EigenvaluesQR,
\* Multiply or Pow, failed or not, the caller's matrices m and data have
\* the rows, in the order and with the elements, they had before the call.
CallLeavesInputs ==
    (op \in MemEngines /\ mem.writes = 0) => InputsAsExpected

\* A failed LUDecompose that swapped the two rows of its working copy.
CallLeavesInputsWitness ==
    /\ op = "LUDecompose" /\ mem.writes = 0 /\ mem.x = mem.m
    /\ m = <<<<Zero, Zero>>, <<One, One>>>>
    /\ ret.err = ErrorsNew("matrix is singular")

\* The matrices that share no storage with the matrix ref.
Apart(ref1, ref2) ==
    (ref1 # 0 /\ ref2 # 0) =>
        /\ ref1 # ref2
        /\ Storage(mem, ref1) \cap Storage(mem, ref2) = {}

\* C9: the matrix made by NewMatrix shares no storage with data, and a
\* returned matrix shares none with m or data; after a write of the caller
\* to data, to m or to a returned matrix, each of the others holds what it
\* held.
ReturnedMatricesAreFresh ==
    /\ Apart(mem.m, mem.data)
    /\ \A f \in ResultFields :
          Apart(mem.out[f], mem.m) /\ Apart(mem.out[f], mem.data)
    /\ mem.writes > 0 =>
          /\ InputsAsExpected
          /\ \A f \in ResultFields :
                mem.out[f] # 0 => Deref(mem, mem.out[f]) = ret[f].rows

\* Pow(m, 1) returned r, and a write changed one of m and r.
ReturnedMatricesWitness ==
    /\ op = "Pow" /\ arg.n = 1 /\ mem.x = mem.m /\ ret.err = NilErr
    /\ mem.writes > 0 /\ mem.setErr = NilErr
    /\ ret.mat.rows # m

(***************************************************************************)
(* Properties of QRDecompose.                                              *)
(***************************************************************************)
\* The transpose of a matrix of float64.
Transposed(x) == [i \in 1..Len(x[1]) |-> [j \in 1..Len(x) |-> x[j][i]]]

EigenNoIterationReturnsDiagonal ==
    (op = "EigenvaluesQR" /\ ValidSquare(m) /\ arg.n <= 0) =>
        /\ ret.err = NilErr
        /\ ret.calls = NoCalls
        /\ Len(ret.vals) = Len(m)
        /\ \A i \in 1..Len(m) : ret.vals[i] = F(m[i][i])

EigenNoIterationWitness ==
    /\ op = "EigenvaluesQR"
    /\ ValidSquare(m)
    /\ arg.n <= 0
    /\ Len(m) = 2
    /\ m[1][2] # 0
    /\ m[2][1] # 0
    /\ ret.vals = <<F(m[1][1]), F(m[2][2])>>
    /\ m[1][1] # m[2][2]

Doubled(T, x) == IF T = "int" THEN 2 * x ELSE (x[1] * 2) \div x[2]

\* The sum over t <= k of the products of the doubled elements a[i][t] and
\* b[t][j], in integers: 4 times the element (i, j) of the product.
RECURSIVE ProductSum4(_, _, _, _, _, _, _)
ProductSum4(T, E, a, b, i, j, k) ==
    IF k = 0 THEN 0
    ELSE ProductSum4(T, E, a, b, i, j, k - 1)
             + Doubled(T, a[i][k]) * Doubled(E, b[k][j])

\* Two valid non-empty operands, the row length of a the row count of b.
Multipliable(a, b) ==
    /\ Validate(a) = NilErr
    /\ Validate(b) = NilErr
    /\ Len(a) > 0
    /\ Len(b) > 0
    /\ Len(a[1]) = Len(b)

\* C13: for valid non-empty a (r x k) and b (k x c), of ints or float64s,
\* Multiply returns a nil error and the r x c matrix whose element (i, j)
\* is the sum over t of a[i][t] * b[t][j].
MultiplyIsProduct ==
    (op = "Multiply" /\ Multipliable(m, m2)) =>
        /\ ret.err = NilErr
        /\ ~ret.mat.nil
        /\ Len(ret.mat.rows) = Len(m)
        /\ \A i \in 1..Len(m) :
               /\ Len(ret.mat.rows[i]) = Len(m2[1])
               /\ \A j \in 1..Len(m2[1]) :
                      ret.mat.rows[i][j] =
                          Rat(ProductSum4(arg.T, arg.E, m, m2, i, j, Len(m2)), 4)

MultiplyWitness ==
    /\ op = "Multiply"
    /\ Multipliable(m, m2)
    /\ arg.T = "int"
    /\ arg.E = "float64"
    /\ Len(m) = 1
    /\ Len(m2) = 2
    /\ Len(m2[1]) = 2
    /\ ret.mat.rows = << <<Rat(-1, 2), Rat(1, 2)>> >>

\* The first and the second operand of the call of Multiply made.
FirstOperand == IF op = "Multiply" THEN m ELSE m2

SecondOperand == IF op = "Multiply" THEN m2 ELSE m

\* C14: Multiply tests its operands in a fixed order and returns a nil matrix
\* with the error of the first test that fails: a shape error prefixed
\* "first matrix" for a ragged first operand, else one prefixed
\* "second matrix" for a ragged second operand, else "empty matrix" for an
\* operand of 0 rows, else "incompatible dimensions" when the row length of
\* the first operand is not the row count of the second.
MultiplyErrorOrder ==
    (op \in {"Multiply", "MultiplyLeft"}) =>
        IF Validate(FirstOperand) # NilErr
        THEN /\ ret.mat = NilMatrix
             /\ ret.err = Wrap("first matrix", Validate(FirstOperand))
             /\ ret.err.msg = "inconsistent row length"
        ELSE IF Validate(SecondOperand) # NilErr
        THEN /\ ret.mat = NilMatrix
             /\ ret.err = Wrap("second matrix", Validate(SecondOperand))
             /\ ret.err.msg = "inconsistent row length"
        ELSE IF Len(FirstOperand) = 0 \/ Len(SecondOperand) = 0
        THEN /\ ret.mat = NilMatrix
             /\ ret.err = ErrorsNew("empty matrix")
        ELSE IF Len(FirstOperand[1]) # Len(SecondOperand)
        THEN /\ ret.mat = NilMatrix
             /\ ret.err = ErrorsNew("incompatible dimensions")
             /\ ret.err # ErrorsNew("empty matrix")
        ELSE ret.err = NilErr /\ ~ret.mat.nil

\* A first operand with rows of non-zero length and an empty second operand.
MultiplyErrorOrderWitness ==
    /\ op = "Multiply"
    /\ Validate(m) = NilErr
    /\ Len(m) = 2
    /\ Len(m[1]) = 2
    /\ m2 = <<>>
    /\ ret.mat = NilMatrix
    /\ ret.err = ErrorsNew("empty matrix")

(***************************************************************************)
(* Properties of Rank.                                                     *)
(***************************************************************************)
\* The increasing sequences of k indices among 1..n.
Choices(n, k) ==
    {c \in [1..k -> 1..n] : \A i, j \in 1..k : i < j => c[i] < c[j]}

\* The k x k matrix of the rows rs and the columns cs of a.
Minor(a, rs, cs) == [i \in 1..Len(rs) |-> [j \in 1..Len(cs) |-> a[rs[i]][cs[j]]]]

\* Some k x k minor of a has a determinant other than 0.
HasMinor(a, k) ==
    \E rs \in Choices(Len(a), k) : \E cs \in Choices(Len(a[1]), k) :
        Leibniz(Minor(a, rs, cs)) # 0

Min(x, y) == IF x <= y THEN x ELSE y

\* The number of linearly independent rows of a matrix of ints: the size of
\* its largest minor of non-zero determinant.
IndependentRows(a) ==
    IF Len(a) = 0 THEN 0
    ELSE CHOOSE k \in 0..Min(Len(a), Len(a[1])) :
             /\ k > 0 => HasMinor(a, k)
             /\ \A l \in (k + 1)..Min(Len(a), Len(a[1])) : ~HasMinor(a, l)

IsZeroMatrix(a) == \A i \in 1..Len(a) : \A j \in 1..Len(a[i]) : a[i][j] = 0

IsIdentity(a) ==
    /\ Len(a) > 0
    /\ Len(a) = Len(a[1])
    /\ \A i, j \in 1..Len(a) : a[i][j] = (IF i = j THEN 1 ELSE 0)

\* Every two rows are proportional: all 2 x 2 minors are 0.
RowsProportional(a) ==
    \A i, k \in 1..Len(a) : \A j, l \in 1..Len(a[1]) :
        a[i][j] * a[k][l] = a[i][l] * a[k][j]

\* C15: Rank returns, for any rectangular matrix and for the empty one, the
\* number of linearly independent rows: 0 for the empty and the all-zero
\* matrix, n for the n x n identity, 1 for a non-zero matrix of proportional
\* rows, and always a value of 0..min(rows, cols).
RankIsIndependentRows ==
    (op = "Rank") =>
        /\ ret.rank = IndependentRows(m)
        /\ ret.err = NilErr
        /\ Len(m) = 0 => ret.rank = 0
        /\ Len(m) > 0 =>
               /\ ret.rank \in 0..Min(Len(m), Len(m[1]))
               /\ IsZeroMatrix(m) => ret.rank = 0
               /\ IsIdentity(m) => ret.rank = Len(m)
               /\ (RowsProportional(m) /\ ~IsZeroMatrix(m)) => ret.rank = 1

\* A matrix of rank 2 whose first column gives no pivot.
RankWitness ==
    /\ op = "Rank"
    /\ Len(m) = 3
    /\ Len(m[1]) = 3
    /\ \A i \in 1..3 : m[i][1] = 0
    /\ m[1][2] = 0
    /\ ret.rank = 2

(***************************************************************************)
(* Properties of Get and Set.                                              *)
(***************************************************************************)
\* The indices of the call are those of an element of the matrix a.
InBounds(a, row, col) ==
    /\ row \in 0..(Len(a) - 1)
    /\ col \in 0..(Len(a[row + 1]) - 1)

\* C16: Get and Set never panic; with a row index outside 0..Rows()-1 or a
\* column index outside 0..len(row)-1 they return an error, Get returns the
\* zero value, and Set leaves every element of the matrix as it was.
AccessIsBoundsChecked ==
    (op \in {"Get", "Set"}) =>
        /\ ~ret.panic
        /\ ~InBounds(m2, arg.row, arg.col) =>
               /\ ret.err # NilErr
               /\ ret.elem = 0
               /\ m = m2
        /\ InBounds(m2, arg.row, arg.col) =>
               /\ ret.err = NilErr
               /\ op = "Get" => (ret.elem = m2[arg.row + 1][arg.col + 1] /\ m = m2)
               /\ op = "Set" =>
                      m = [m2 EXCEPT ![arg.row + 1][arg.col + 1] = SetValue]

\* Set with the row index one past the last row.
AccessWitness ==
    /\ op = "Set"
    /\ Len(m2) = 2
    /\ arg.row = 2
    /\ arg.col = 0
    /\ ret.err = RowOutOfBounds(m2, 2)
    /\ m = m2

(***************************************************************************)
(* Properties of Pow.                                                      *)
(***************************************************************************)
\* The product of n factors a, the identity for n = 0.
RECURSIVE NaivePower(_, _)
NaivePower(a, n) ==
    IF n = 0 THEN Identity(Len(a))
    ELSE IF n = 1 THEN a
    ELSE MatProduct(NaivePower(a, n - 1), a)

SameMatrix(x, y) ==
    /\ Len(x) = Len(y)
    /\ \A i \in 1..Len(x) :
           /\ Len(x[i]) = Len(y[i])
           /\ \A j \in 1..Len(x[i]) : x[i][j] = y[i][j]

\* C17: for a valid non-empty square matrix m, Pow(m, n) with n >= 0 is the
\* product of n factors m (the identity for n = 0, m as float64 for n = 1);
\* with n < 0 it is an error if m is singular, and else the matrix whose
\* product with the -n factors m is the identity.
PowIsPower ==
    (op = "Pow" /\ ValidSquare(m)) =>
        /\ arg.n >= 0 =>
               /\ ret.err = NilErr
               /\ ~ret.mat.nil
               /\ SameMatrix(ret.mat.rows, NaivePower(gtoFloat64Matrix(m), arg.n))
        /\ (arg.n < 0 /\ Leibniz(m) = 0) =>
               /\ ret.mat = NilMatrix
               /\ ret.err = Wrap("cannot compute negative power",
                                 ErrorsNew("matrix is singular"))
        /\ (arg.n < 0 /\ Leibniz(m) # 0) =>
               /\ ret.err = NilErr
               /\ ~ret.mat.nil
               /\ SameMatrix(MatProduct(ret.mat.rows,
                                        NaivePower(gtoFloat64Matrix(m), -arg.n)),
                             Identity(Len(m)))

\* The third power of a matrix of 3 rows that is not triangular.
PowWitness ==
    /\ op = "Pow"
    /\ ValidSquare(m)
    /\ arg.n = MaxPow
    /\ Len(m) = 3
    /\ m[1][2] # 0
    /\ m[2][1] # 0
    /\ m[3][1] # 0
    /\ ret.err = NilErr
    /\ ret.mat.rows[1][1] # F(m[1][1])

(***************************************************************************)
(* Inverse as an involution.                                               *)
(***************************************************************************)
\* C18: for every square matrix A of non-zero determinant Inverse(A)
\* succeeds, Inverse of the matrix returned succeeds, and it returns A.
InverseIsInvolution ==
    /\ (op = "Inverse" /\ ValidSquare(m) /\ Leibniz(m) # 0) => ret.err = NilErr
    /\ op = "InverseInverse" =>
           /\ ret.err = NilErr
           /\ ~ret.mat.nil
           /\ SameMatrix(ret.mat.rows, gtoFloat64Matrix(m))

\* A matrix of 3 rows whose inverse has an element that is not an integer.
InverseIsInvolutionWitness ==
    /\ op = "InverseInverse"
    /\ Len(m) = 3
    /\ Leibniz(m) = 2
    /\ SameMatrix(ret.mat.rows, gtoFloat64Matrix(m))

(***************************************************************************)
(* The singularity error of LUDecompose.                                   *)
(***************************************************************************)
\* C20: LUDecompose returns the error "matrix is singular" only for a
\* singular matrix: for every square matrix of small ints whose determinant
\* is not 0 it succeeds.
LUSingularOnlyIfSingular ==
    (op = "LUDecompose" /\ ValidSquare(m) /\ Leibniz(m) # 0) =>
        /\ ret.err # ErrorsNew("matrix is singular")
        /\ ret.err = NilErr

\* |v - k| < 10^-6, in exact arithmetic.
WithinMillionth(v, k) ==
    LET d == ExactAdd(v, F64Neg(F64OfInt(k)))
    IN  /\ ~d.out
        /\ \/ IsZero(d)
           \/ d.e < 0 /\ BCmp(BMul(d.n, BFromInt(10^6)), BShl(BOne, -d.e)) < 0

SymmetricTestMatrix == << <<2, 1>>, <<1, 2>> >>

SymmetricTestCall ==
    /\ op = "EigenvaluesQR"
    /\ arg.T = "float64"
    /\ m = SymmetricTestMatrix
    /\ arg.n = TestIter
    /\ arg.tol = F64Tenth10

\* C19: EigenvaluesQR on [[2,1],[1,2]] with maxIter = 100 and tol = 1e-10
\* returns no error and two values, each within 1e-6 of 3 or of 1, whether
\* or not the build fuses products and sums.
EigenSymmetricConverges ==
    SymmetricTestCall =>
        /\ ret.err = NilErr
        /\ Len(ret.vals) = 2
        /\ \A i \in 1..Len(ret.vals) :
               WithinMillionth(ret.vals[i], 3) \/ WithinMillionth(ret.vals[i], 1)

\* The call of C19 returned after more than two iterations, with values
\* that are not the diagonal of the input.
EigenSymmetricWitness ==
    /\ SymmetricTestCall
    /\ ret.calls.qr > 2
    /\ ret.calls.mul = ret.calls.qr
    /\ Len(ret.vals) = 2
    /\ ret.vals[1] # F64OfInt(2)

\* The lowest row k of i..n with the largest magnitude in column i of a.
LargestRow(a, i, n) ==
    CHOOSE k \in i..n :
        /\ \A j \in i..n : ~RLess(MathAbs(a[k][i]), MathAbs(a[j][i]))
        /\ \A j \in i..(k - 1) : RLess(MathAbs(a[j][i]), MathAbs(a[k][i]))

\* The row that takes the place of row r when the rows i and p are swapped.
Swapped(r, i, p) == IF r = i THEN p ELSE IF r = p THEN i ELSE r

\* The iteration i from the state b to the state a swapped the rows i and p
\* of the working copy and of the columns < i of L, and counted the swap.
SwapIs(b, a, i, p, n) ==
    /\ \A r \in 1..n : a.a[r] = b.a[Swapped(r, i, p)]
    /\ \A r \in 1..n : \A c \in 1..(i - 1) : a.l[r][c] = b.l[Swapped(r, i, p)][c]
    /\ a.numSwaps = b.numSwaps + (IF p = i THEN 0 ELSE 1)
    /\ a.numSwaps <= (IF i < n THEN i ELSE n - 1)

\* C21: every iteration of LUDecompose takes as the pivot row the lowest row
\* of i..n-1 with the largest magnitude in column i of the working copy,
\* swaps it with row i in the working copy and in the computed columns of
\* L, and counts one swap when it is not row i; the count returned is in
\* 0..n-1.
LUPivotIsLargestRow ==
    /\ (op \in {InLoop("LUDecompose"), "LUDecompose"} /\ ret.loop.i >= 1) =>
           SwapIs(ret.loop.before, ret.loop.s, ret.loop.i,
                  LargestRow(ret.loop.before.a, ret.loop.i, Len(m)), Len(m))
    /\ op = "LUDecompose" => ret.numSwaps \in 0..(IF Len(m) = 0 THEN 0 ELSE Len(m) - 1)

\* A call on a 3 x 3 matrix returned after two swaps, the first of them on
\* a tie of the rows 1 and 2 (0-based), the second one with a swap in L.
LUPivotWitness ==
    /\ op = "LUDecompose"
    /\ ret.err = NilErr
    /\ Len(m) = 3
    /\ ret.numSwaps = 2
    /\ IAbs(m[2][1]) = IAbs(m[3][1])
    /\ IAbs(m[1][1]) < IAbs(m[2][1])
    /\ ret.L.rows[2][1] # ret.L.rows[3][1]

\* C22: on success every entry of L below the diagonal has a magnitude of
\* at most 1, that is, the pivot U[i][i] has the largest magnitude of the
\* active sub-column.
LUMultipliersBounded ==
    (op = "LUDecompose" /\ ret.err = NilErr) =>
        \A k \in 1..Len(m) : \A i \in 1..(k - 1) :
            ~RLess(One, MathAbs(ret.L.rows[k][i]))

\* The product of the elements u[i][i] for i in 1..n, from the last one on.
RECURSIVE ProductFrom(_, _, _)
ProductFrom(u, i, n) ==
    IF i > n THEN One ELSE RMul(u[i][i], ProductFrom(u, i + 1, n))

\* (-1)^numSwaps times the product of the diagonal of U, for the result lu
\* of LUDecompose.
SignedDiagonal(lu) ==
    RMul(F((-1)^lu.numSwaps), ProductFrom(lu.U.rows, 1, Len(lu.U.rows)))

DetOfFactors(lu) ==
    lu.err = NilErr => ret.err = NilErr /\ ret.val = SignedDiagonal(lu)

\* C23: when LUDecompose succeeds inside Det, Det returns the product of the
\* diagonal of U times (-1)^numSwaps.
DetIsSignedDiagonalProduct == op = "Det" => DetOfFactors(LUDecompose(m))

DetSwappedOnce(lu) ==
    /\ lu.err = NilErr
    /\ lu.numSwaps % 2 = 1
    /\ ret.val = RNeg(ProductFrom(lu.U.rows, 1, Len(lu.U.rows)))
    /\ \E i \in 1..Len(m) : lu.U.rows[i][i] \notin {One, RNeg(One)}

\* Det returned a non-zero value after an odd number of swaps, for factors
\* whose diagonal is not of 1 and -1 only.
DetSignWitness ==
    /\ op = "Det"
    /\ ret.err = NilErr
    /\ ret.val # Zero
    /\ DetSwappedOnce(LUDecompose(m))

IsRagged(a) == \E i \in 1..Len(a) : Len(a[i]) # Len(a[1])

\* The kind of error that LUDecompose documents for the matrix a, where
\* "" stands for the two outcomes of a square matrix.
LUErrorKind(a) ==
    IF IsRagged(a) THEN "inconsistent row length"
    ELSE IF Len(a) = 0 THEN "matrix is empty"
    ELSE IF Len(a[1]) # Len(a) THEN "matrix is not square"
    ELSE ""

\* C24: on every error path LUDecompose returns nil for L and U and 0 for
\* the swap count with the error; a ragged, an empty and a non-square
\* matrix get their own errors, which differ from each other and from the
\* error of a pivot below 1e-12.
LUFailureIsTotal ==
    op = "LUDecompose" =>
        /\ ret.err # NilErr =>
               ret.L = NilMatrix /\ ret.U = NilMatrix /\ ret.numSwaps = 0
        /\ LUErrorKind(m) # "" => ret.err.msg = LUErrorKind(m)
        /\ LUErrorKind(m) = "" => ret.err.msg \in {"nil", "matrix is singular"}
        /\ ret.err.msg = "matrix is singular" =>
               \E i \in 1..Len(m) :
                   BelowEps(MathAbs(LULoop(LUStart(gtoFloat64Matrix(m)), 1).u[i][i]),
                            LUEpsDigits)

LUFailedLate(s) ==
    /\ s.err # NilErr
    /\ s.numSwaps > 0
    /\ s.u[1][1] # Zero
    /\ s.u[2][2] # Zero
    /\ s.l[2][1] # Zero

\* LUDecompose found a 3 x 3 matrix singular at its last pivot, after a
\* swap and with two rows of U and a column of L computed.
LUFailureWitness ==
    /\ op = "LUDecompose"
    /\ ret.err.msg = "matrix is singular"
    /\ Len(m) = 3
    /\ LUFailedLate(LULoop(LUStart(gtoFloat64Matrix(m)), 1))

\* The second column of the 2 x 2 matrix a of whole numbers is a multiple
\* of the first one.
ColumnsDependent(a) ==
    \E k \in 0..QRFactorMax : \A i \in 1..Len(a) : a[i][2] = k * a[i][1]

\* C25: QRDecompose fails with "linearly dependent columns (zero norm)" and
\* no Q and R for every square matrix with linearly dependent columns; on
\* success every R[j][j] is at least 1e-10 and R is 0 below its diagonal.
QRFailsOnDependentColumns ==
    op = "QRDecompose" =>
        /\ ColumnsDependent(m) =>
               /\ ret.err = ErrorsNew("linearly dependent columns (zero norm)")
               /\ ret.Q = NilMatrix
               /\ ret.R = NilMatrix
        /\ ret.err = NilErr =>
               /\ \A j \in 1..Len(m) : ~F64Less(ret.R.rows[j][j], F64Tenth10)
               /\ \A j \in 1..Len(m) : \A i \in (j + 1)..Len(m) :
                      IsZero(ret.R.rows[i][j])

\* R * Q for the factors qr of a matrix.
ProductRQ(fused, qr) == MultiplyRows64(fused, qr.R.rows, qr.Q.rows)

\* The matrix, followed by its k iterates under a -> R * Q.
RECURSIVE Iterates(_, _, _)
Iterates(fused, seq, k) ==
    IF k = 0 \/ Len(seq) = 0 THEN seq
    ELSE IF k = 1
    THEN Append(seq, ProductRQ(fused, QRDecompose64(fused, seq[Len(seq)])))
    ELSE Iterates(fused, Iterates(fused, seq, k \div 2), k - k \div 2)

\* No diagonal element of x is farther than tol from that of y, where the
\* difference is the exact one.
DiagonalClose(x, y, tol) ==
    \A i \in 1..Len(x) :
        ~F64Less(tol, F64Abs(ExactAdd(x[i][i], F64Neg(y[i][i]))))

\* seq is a matrix and the iterates of a run of maxIter iterations at most
\* that ended after the first iterate, from the second one on, which is
\* close to the one before it.
StopsAtFirstClose(seq, maxIter, tol) ==
    /\ \A j \in 2..(Len(seq) - 2) : ~DiagonalClose(seq[j + 1], seq[j], tol)
    /\ Len(seq) - 1 < maxIter =>
           /\ Len(seq) - 1 >= 2
           /\ DiagonalClose(seq[Len(seq)], seq[Len(seq) - 1], tol)
    /\ ret.vals = Diagonal(seq[Len(seq)])

\* C26: the convergence test of EigenvaluesQR is applied from the second
\* iteration on: with maxIter = 1 one QR step is made, with maxIter >= 2 at
\* least two, and the loop stops after the first iteration, from the second
\* one on, that moved no diagonal element by more than tol.
EigenTestsFromSecondIteration ==
    (op = "EigenvaluesQR" /\ arg.T = "float64" /\ arg.n >= 1) =>
        /\ ret.calls.qr \in 1..arg.n
        /\ arg.n = 1 => ret.calls.qr = 1
        /\ ret.err = NilErr =>
               /\ ret.calls = [qr |-> ret.calls.qr, mul |-> ret.calls.qr]
               /\ arg.n >= 2 => ret.calls.qr >= 2
               /\ StopsAtFirstClose(
                      Iterates(arg.fused, <<Matrix64(m)>>, ret.calls.qr),
                      arg.n, arg.tol)

\* The identity matrix with maxIter = 100: the first step leaves the
\* diagonal as it is, and two steps are made.
EigenSecondIterationWitness ==
    /\ op = "EigenvaluesQR"
    /\ arg.T = "float64"
    /\ m = << <<1, 0>>, <<0, 1>> >>
    /\ arg.n = TestIter
    /\ ret.err = NilErr
    /\ ret.calls = [qr |-> 2, mul |-> 2]
    /\ ret.vals = <<F64OfInt(1), F64OfInt(1)>>

\* The iterations of a call with maxIter.
IterationsAllowed(maxIter) == IF maxIter > 0 THEN maxIter ELSE 0

\* A call of EigenvaluesQR returned after at most maxIter QR
\* decompositions with an error and no value, or with the diagonal of the
\* last iterate.
EigenReturnsInTime ==
    /\ ret.calls.qr \in 0..IterationsAllowed(arg.n)
    /\ ret.calls.mul \in {ret.calls.qr, ret.calls.qr - 1}
    /\ ret.err # NilErr => ret.vals = <<>> /\ ret.calls.mul = ret.calls.qr - 1
    /\ ret.err = NilErr =>
           /\ ret.calls.mul = ret.calls.qr
           /\ Len(ret.vals) = Len(m)
           /\ LET seq == Iterates(arg.fused, <<Matrix64(m)>>, ret.calls.mul)
              IN  ret.vals = Diagonal(seq[Len(seq)])

\* The call left the loop before maxIter iterations were made.
LeftByTest == ret.err = NilErr /\ ret.calls.qr < IterationsAllowed(arg.n)

\* The last iteration of the call left the diagonal as it was.
LastStepKeptDiagonal ==
    LET seq == Iterates(arg.fused, <<Matrix64(m)>>, ret.calls.mul)
    IN  /\ Len(seq) >= 3
        /\ Diagonal(seq[Len(seq)]) = Diagonal(seq[Len(seq) - 1])

ColumnsOfIdentity(A, i) ==
    \A r \in 1..Len(A) : \A c \in 1..i :
        A[r][c] = (IF r = c THEN One ELSE Zero)

\* Step i took the state b to the state a with row p of b as the pivot row:
\* it failed, leaving the matrix as it was, when the pivot is below 10^-10,
\* and else left the pivot row divided by the pivot in row i, and the
\* columns of the identity.
GaussJordanStep(b, a, i, p) ==
    /\ a.err # NilErr <=> BelowEps(MathAbs(b.A[p][i]), InverseEpsDigits)
    /\ a.err # NilErr => a.err = ErrorsNew("matrix is singular") /\ a.A = b.A
    /\ a.err = NilErr =>
           /\ ColumnsOfIdentity(a.A, i)
           /\ \A j \in 1..Len(b.A[p]) : a.A[i][j] = RDiv(b.A[p][j], b.A[p][i])

\* C28: after step i of Inverse the columns 0..i of the left half of the
\* augmented matrix are those of the identity; the pivot of the step is the
\* element of the largest magnitude of column i in the rows i..n-1 of the
\* matrix as reduced so far, in the lowest row on ties; and the step fails
\* with "matrix is singular" exactly when that magnitude is below 1e-10.
InverseStepInvariant ==
    (op \in {InLoop("Inverse"), "Inverse"} /\ ret.loop.i >= 1) =>
        GaussJordanStep(ret.loop.before, ret.loop.s, ret.loop.i,
                        LargestRow(ret.loop.before.A, ret.loop.i, Len(m)))

\* Step 1 (0-based) of a call on a 3 x 3 matrix took row 2 as the pivot
\* row, for an element that step 0 had made, and the call went on.
InverseStepWitness ==
    /\ op = InLoop("Inverse")
    /\ Len(m) = 3
    /\ ret.loop.i = 2
    /\ ret.loop.s.err = NilErr
    /\ LargestRow(ret.loop.before.A, 2, 3) = 3
    /\ \A r \in 1..3 : ret.loop.before.A[3][2] # F(m[r][2])

\* b has the rows of a, each of its length, and the elements of a but for
\* the one in row r and column c (1-based).
SameButAt(b, a, r, c) ==
    /\ Len(b) = Len(a)
    /\ \A i \in 1..Len(a) :
           /\ Len(b[i]) = Len(a[i])
           /\ \A j \in 1..Len(a[i]) : (i # r \/ j # c) => b[i][j] = a[i][j]

\* C29: a Set(row, col, val) that returns nil changes the element at
\* (row, col) and nothing else, neither the counts of rows and columns nor
\* another element; a Get(row, col) after it returns val and nil; and Get
\* leaves the matrix as it is.
SetChangesOneElement ==
    /\ (op = "Set" /\ ret.err = NilErr) =>
           SameButAt(m, m2, arg.row + 1, arg.col + 1)
    /\ op = "SetGet" =>
           /\ ret.elem = SetValue
           /\ ret.err = NilErr
           /\ ~ret.panic
           /\ SameButAt(m, m2, arg.row + 1, arg.col + 1)
           /\ m[arg.row + 1][arg.col + 1] = SetValue
    /\ op = "Get" => m = m2

\* Set wrote the last element of the first row of a matrix of several rows
\* and columns, and Get read it.
SetChangesOneElementWitness ==
    /\ op = "SetGet"
    /\ Len(m2) > 1
    /\ Len(m2[2]) > 1
    /\ arg.row = 0
    /\ arg.col = Len(m2[1]) - 1
    /\ arg.col > 0
    /\ m2[1][arg.col + 1] # SetValue
    /\ ret.elem = SetValue

\* C30: Pow terminates for every exponent n, the most negative int
\* included: the stack is never exhausted, and the call Pow(inv, -n) is
\* entered at most once, with an exponent that is not negative.
PowRecursesAtMostOnce ==
    /\ op # "Pow:stack overflow"
    /\ op \in {InLoop("Pow"), "Pow"} =>
           /\ ret.loop.i <= 1
           /\ ret.loop.i = 1 => ret.loop.s.n >= 0

====
